---- MODULE Spec2Model ----
(***************************************************************************)
(* Layout geometry, widget helpers, drawing primitives of the renderer,    *)
(* and the entity and media widgets of the GeekMagic display integration   *)
(* (custom_components/geekmagic).                                          *)
(*                                                                         *)
(* The layouts multiply pixel counts by Python floats and truncate the     *)
(* product with int(); the outcome depends on IEEE-754 binary64 rounding   *)
(* (int(180 * 0.7) is 125, not 126).  Floats are therefore modelled        *)
(* exactly: a float is a sign, an arbitrary-precision natural mantissa and *)
(* a binary exponent, and every operation rounds its exact result to 53    *)
(* significant bits, ties to even.  Exponent range (overflow, subnormals)  *)
(* is outside the modelled input ranges of the arithmetic; infinities and  *)
(* NaN occur only as values that float() parses and that are handed on     *)
(* unchanged.                                                              *)
(***************************************************************************)
EXTENDS Integers, Sequences, FiniteSets, TLC

(***************************************************************************)
(* Arbitrary-precision naturals: little-endian sequences of 13-bit limbs   *)
(* without leading zero limbs (zero is the empty sequence).  TLC integers  *)
(* are 32-bit, a binary64 mantissa is 53-bit.                              *)
(***************************************************************************)
Base == 2^13

Pow2(k) == 2^k

Limb(a, i) == IF i <= Len(a) THEN a[i] ELSE 0

RECURSIVE BStrip(_)
BStrip(a) ==
    IF a # <<>> /\ a[Len(a)] = 0 THEN BStrip(SubSeq(a, 1, Len(a) - 1)) ELSE a

RECURSIVE BFromInt(_)
BFromInt(n) == IF n = 0 THEN <<>> ELSE <<n % Base>> \o BFromInt(n \div Base)

RECURSIVE BToInt(_)
BToInt(a) == IF a = <<>> THEN 0 ELSE a[1] + Base * BToInt(Tail(a))

RECURSIVE BAddC(_, _, _, _)
BAddC(a, b, i, c) ==
    IF i > Len(a) /\ i > Len(b)
    THEN (IF c = 0 THEN <<>> ELSE <<c>>)
    ELSE LET x == Limb(a, i) + Limb(b, i) + c
         IN  <<x % Base>> \o BAddC(a, b, i + 1, x \div Base)

BAdd(a, b) == BAddC(a, b, 1, 0)

RECURSIVE BSubC(_, _, _, _)
BSubC(a, b, i, c) ==
    IF i > Len(a)
    THEN <<>>
    ELSE LET x == Limb(a, i) - Limb(b, i) - c
         IN  IF x < 0
             THEN <<x + Base>> \o BSubC(a, b, i + 1, 1)
             ELSE <<x>> \o BSubC(a, b, i + 1, 0)

\* a - b for a >= b
BSub(a, b) == BStrip(BSubC(a, b, 1, 0))

RECURSIVE BCmpAt(_, _, _)
BCmpAt(a, b, i) ==
    IF i = 0 THEN 0
    ELSE IF a[i] > b[i] THEN 1
    ELSE IF a[i] < b[i] THEN -1
    ELSE BCmpAt(a, b, i - 1)

\* -1, 0, 1 as a < b, a = b, a > b
BCmp(a, b) ==
    IF Len(a) > Len(b) THEN 1
    ELSE IF Len(a) < Len(b) THEN -1
    ELSE BCmpAt(a, b, Len(a))

RECURSIVE BMulSmallC(_, _, _, _)
BMulSmallC(a, k, i, c) ==
    IF i > Len(a)
    THEN (IF c = 0 THEN <<>> ELSE <<c>>)
    ELSE LET x == a[i] * k + c
         IN  <<x % Base>> \o BMulSmallC(a, k, i + 1, x \div Base)

\* a * k for 0 <= k < Base
BMulSmall(a, k) == IF k = 0 THEN <<>> ELSE BMulSmallC(a, k, 1, 0)

RECURSIVE BMulAt(_, _, _)
BMulAt(a, b, j) ==
    IF j > Len(b) THEN <<>>
    ELSE BAdd(BMulSmall(a, b[j]), <<0>> \o BMulAt(a, b, j + 1))

BMul(a, b) == BStrip(BMulAt(a, b, 1))

\* a * 2^k
BShl(a, k) ==
    IF a = <<>> THEN <<>>
    ELSE [i \in 1..(k \div 13) |-> 0] \o BMulSmall(a, Pow2(k % 13))

\* floor(a / 2^k)
BShr(a, k) ==
    LET q == k \div 13
        r == k % 13
    IN  IF q >= Len(a) THEN <<>>
        ELSE BStrip([i \in 1..(Len(a) - q) |->
                       (a[i + q] \div Pow2(r))
                       + (Limb(a, i + q + 1) % Pow2(r)) * Pow2(13 - r)])

\* bit i of a, bit 0 the least significant
BBit(a, i) == (Limb(a, (i \div 13) + 1) \div Pow2(i % 13)) % 2

RECURSIVE IntBitLen(_)
IntBitLen(n) == IF n = 0 THEN 0 ELSE 1 + IntBitLen(n \div 2)

BBitLen(a) == IF a = <<>> THEN 0 ELSE 13 * (Len(a) - 1) + IntBitLen(a[Len(a)])

RECURSIVE BDigit(_, _, _, _)
\* the largest t' >= t with t' * d <= r, trying bits j, j-1, .., 0 on top of t
BDigit(r, d, t, j) ==
    IF j < 0 THEN t
    ELSE IF BCmp(BMulSmall(d, t + Pow2(j)), r) <= 0
         THEN BDigit(r, d, t + Pow2(j), j - 1)
         ELSE BDigit(r, d, t, j - 1)

RECURSIVE BDivModAt(_, _, _)
\* long division of the limbs i..Len(n) of n by d: <<quotient, remainder>>
BDivModAt(n, d, i) ==
    IF i > Len(n) THEN <<(<<>>), <<>>>>
    ELSE LET hi == BDivModAt(n, d, i + 1)
             r  == BStrip(<<n[i]>> \o hi[2])
             t  == IF BCmp(r, d) < 0 THEN 0 ELSE BDigit(r, d, 0, 12)
         IN  <<BStrip(<<t>> \o hi[1]), BSub(r, BMulSmall(d, t))>>

\* <<floor(n / d), n mod d>> for d > 0
BDivMod(n, d) == BDivModAt(n, d, 1)

(***************************************************************************)
(* binary64 values: [s |-> 1 or -1, m |-> mantissa, e |-> exponent],       *)
(* denoting s * m * 2^e, kept canonical (m odd, or zero as below).         *)
(***************************************************************************)
FZero == [s |-> 1, m |-> <<>>, e |-> 0]

RECURSIVE FCanon(_, _, _)
FCanon(s, m, e) ==
    IF m = <<>> THEN FZero
    ELSE IF m[1] = 0 THEN FCanon(s, Tail(m), e + 13)
    ELSE IF m[1] % 2 = 0 THEN FCanon(s, BShr(m, 1), e + 1)
    ELSE [s |-> s, m |-> m, e |-> e]

\* round s * (m + sticky fraction) * 2^e to 53 significant bits, ties to even
FRound(s, m, e, sticky) ==
    LET len == BBitLen(m)
    IN  IF len <= 53 THEN FCanon(s, m, e)
        ELSE LET k     == len - 53
                 q     == BShr(m, k)
                 guard == BBit(m, k - 1)
                 rest  == sticky \/ BShl(BShr(m, k - 1), k - 1) # m
                 up    == guard = 1 /\ (rest \/ BBit(q, 0) = 1)
             IN  FCanon(s, IF up THEN BAdd(q, <<1>>) ELSE q, e + k)

\* float(n) for a Python int of magnitude below 2^31
FromInt(n) == FCanon(IF n < 0 THEN -1 ELSE 1, BFromInt(IF n < 0 THEN -n ELSE n), 0)

FNeg(a) == IF a.m = <<>> THEN a ELSE [a EXCEPT !.s = -a.s]

FMul(a, b) == FRound(a.s * b.s, BMul(a.m, b.m), a.e + b.e, FALSE)

\* a / b for b # 0: 55 or 56 quotient bits and a sticky remainder
FDiv(a, b) ==
    IF a.m = <<>> THEN FZero
    ELSE LET sh == 55 + BBitLen(b.m) - BBitLen(a.m)
             qr == BDivMod(BShl(a.m, sh), b.m)
         IN  FRound(a.s * b.s, qr[1], a.e - b.e - sh, qr[2] # <<>>)

\* compare magnitudes |a|, |b|
FCmpAbs(a, b) ==
    LET emin == IF a.e < b.e THEN a.e ELSE b.e
    IN  BCmp(BShl(a.m, a.e - emin), BShl(b.m, b.e - emin))

\* -1, 0, 1 as a < b, a = b, a > b
FCmp(a, b) ==
    IF a.s # b.s THEN (IF a.s < b.s THEN -1 ELSE 1)
    ELSE a.s * FCmpAbs(a, b)

FAdd(a, b) ==
    LET emin == IF a.e < b.e THEN a.e ELSE b.e
        am   == BShl(a.m, a.e - emin)
        bm   == BShl(b.m, b.e - emin)
    IN  IF a.s = b.s THEN FRound(a.s, BAdd(am, bm), emin, FALSE)
        ELSE IF BCmp(am, bm) >= 0 THEN FRound(a.s, BSub(am, bm), emin, FALSE)
        ELSE FRound(b.s, BSub(bm, am), emin, FALSE)

FSub(a, b) == FAdd(a, FNeg(b))

\* int(a): truncation toward zero
Trunc(a) ==
    IF a.e >= 0 THEN a.s * BToInt(BShl(a.m, a.e))
    ELSE a.s * BToInt(BShr(a.m, -a.e))

\* a decimal literal num/den (den a power of ten), e.g. 0.7 is Lit(7, 10):
\* the float nearest to the decimal value, which is what correctly rounded
\* division of the two exactly representable integers yields
Lit(num, den) == FDiv(FromInt(num), FromInt(den))

(***************************************************************************)
(* Python builtins used by the layouts                                     *)
(***************************************************************************)
\* min(a, b) and max(a, b): the first argument unless the second is strictly
\* smaller (larger)
PyMin(a, b) == IF FCmp(b, a) < 0 THEN b ELSE a

PyMax(a, b) == IF FCmp(b, a) > 0 THEN b ELSE a

\* sum(ratios) up to CPython 3.11: 0 + r1 + r2 + r3, each addition rounded
PySumNaive(rs) == FAdd(FAdd(FAdd(FZero, rs[1]), rs[2]), rs[3])

FAbsGe(a, b) == FCmpAbs(a, b) >= 0

\* one step of the compensated loop of sum() since CPython 3.12:
\* acc = <<f_result, c>>, x the next item
NeumaierStep(acc, x) ==
    LET t == FAdd(acc[1], x)
    IN  <<t, FAdd(acc[2], IF FAbsGe(acc[1], x)
                          THEN FAdd(FSub(acc[1], t), x)
                          ELSE FAdd(FSub(x, t), acc[1]))>>

\* sum(ratios) since CPython 3.12 (Neumaier compensation)
PySumCompensated(rs) ==
    LET acc == NeumaierStep(NeumaierStep(NeumaierStep(<<FZero, FZero>>, rs[1]), rs[2]), rs[3])
    IN  IF acc[2].m # <<>> THEN FAdd(acc[1], acc[2]) ELSE acc[1]

\* the values sum(ratios) takes across interpreter versions
PySums(rs) == {PySumNaive(rs), PySumCompensated(rs)}

(***************************************************************************)
(* Layouts (layouts/split.py, layouts/hero.py)                             *)
(***************************************************************************)
DisplayWidth == 240
DisplayHeight == 240

\* a ratio argument as written by the caller: the decimal num/den
LitOf(r) == Lit(r.num, r.den)

Slot(index, rect) == [index |-> index, rect |-> rect]

\* SplitLayout.__init__ storing the requested ratio as it is
SplitRatioUnclamped(ratio) == ratio

\* SplitLayout.__init__: self.ratio
SplitRatio(ratio) == PyMax(Lit(2, 10), PyMin(Lit(8, 10), ratio))

\* SplitLayout._calculate_slots with the second panel starting where the
\* first one ends
SplitSlotsNoGap(horizontal, ratio, padding, gap) ==
    LET available_width  == DisplayWidth - (2 * padding) - gap
        available_height == DisplayHeight - (2 * padding) - gap
        top_height == Trunc(FMul(FromInt(available_height + gap), ratio)) - (gap \div 2)
        left_width == Trunc(FMul(FromInt(available_width + gap), ratio)) - (gap \div 2)
    IN  IF horizontal
        THEN << Slot(0, <<padding, padding,
                          DisplayWidth - padding, padding + top_height>>),
                Slot(1, <<padding, padding + top_height,
                          DisplayWidth - padding, DisplayHeight - padding>>) >>
        ELSE << Slot(0, <<padding, padding,
                          padding + left_width, DisplayHeight - padding>>),
                Slot(1, <<padding + left_width, padding,
                          DisplayWidth - padding, DisplayHeight - padding>>) >>

\* SplitLayout._calculate_slots, ratio = self.ratio
SplitSlots(horizontal, ratio, padding, gap) ==
    LET available_width  == DisplayWidth - (2 * padding) - gap
        available_height == DisplayHeight - (2 * padding) - gap
        top_height == Trunc(FMul(FromInt(available_height + gap), ratio)) - (gap \div 2)
        left_width == Trunc(FMul(FromInt(available_width + gap), ratio)) - (gap \div 2)
    IN  IF horizontal
        THEN << Slot(0, <<padding, padding,
                          DisplayWidth - padding, padding + top_height>>),
                Slot(1, <<padding, padding + top_height + gap,
                          DisplayWidth - padding, DisplayHeight - padding>>) >>
        ELSE << Slot(0, <<padding, padding,
                          padding + left_width, DisplayHeight - padding>>),
                Slot(1, <<padding + left_width + gap, padding,
                          DisplayWidth - padding, DisplayHeight - padding>>) >>

\* HeroLayout._calculate_slots with the footer row directly below the hero
HeroSlotsFooterNoGap(footer_slots, hero_ratio, padding, gap) ==
    LET available_width  == DisplayWidth - (2 * padding)
        available_height == DisplayHeight - (2 * padding) - gap
        hero_height  == Trunc(FMul(FromInt(available_height), hero_ratio))
        footer_width == (available_width - (footer_slots - 1) * gap) \div footer_slots
        footer_y     == padding + hero_height
        x1(i)        == padding + i * (footer_width + gap)
    IN  << Slot(0, <<padding, padding,
                     DisplayWidth - padding, padding + hero_height>>) >>
        \o [k \in 1..footer_slots |->
              Slot(k, <<x1(k - 1), footer_y,
                        x1(k - 1) + footer_width, DisplayHeight - padding>>)]

\* HeroLayout._calculate_slots taking the ratio of the whole interior height
HeroSlotsWholeInterior(footer_slots, hero_ratio, padding, gap) ==
    LET available_width  == DisplayWidth - (2 * padding)
        available_height == DisplayHeight - (2 * padding)
        hero_height  == Trunc(FMul(FromInt(available_height), hero_ratio))
        footer_width == (available_width - (footer_slots - 1) * gap) \div footer_slots
        footer_y     == padding + hero_height + gap
        x1(i)        == padding + i * (footer_width + gap)
    IN  << Slot(0, <<padding, padding,
                     DisplayWidth - padding, padding + hero_height>>) >>
        \o [k \in 1..footer_slots |->
              Slot(k, <<x1(k - 1), footer_y,
                        x1(k - 1) + footer_width, DisplayHeight - padding>>)]

\* HeroLayout._calculate_slots
HeroSlots(footer_slots, hero_ratio, padding, gap) ==
    LET available_width  == DisplayWidth - (2 * padding)
        available_height == DisplayHeight - (2 * padding) - gap
        hero_height  == Trunc(FMul(FromInt(available_height), hero_ratio))
        footer_width == (available_width - (footer_slots - 1) * gap) \div footer_slots
        footer_y     == padding + hero_height + gap
        x1(i)        == padding + i * (footer_width + gap)
    IN  << Slot(0, <<padding, padding,
                     DisplayWidth - padding, padding + hero_height>>) >>
        \o [k \in 1..footer_slots |->
              Slot(k, <<x1(k - 1), footer_y,
                        x1(k - 1) + footer_width, DisplayHeight - padding>>)]

\* ThreeColumnLayout._calculate_slots, total_ratio = sum(self.ratios)
ThreeColumnSlots(ratios, total_ratio, padding, gap) ==
    LET available_width == DisplayWidth - (2 * padding) - (2 * gap)
        col_width == [i \in 1..3 |->
                        Trunc(FMul(FromInt(available_width),
                                   FDiv(ratios[i], total_ratio)))]
        x == [i \in 1..3 |->
                IF i = 1 THEN padding
                ELSE IF i = 2 THEN padding + col_width[1] + gap
                ELSE padding + col_width[1] + gap + col_width[2] + gap]
    IN  [i \in 1..3 |->
           Slot(i - 1, <<x[i], padding, x[i] + col_width[i], DisplayHeight - padding>>)]

(***************************************************************************)
(* Widget helpers (widgets/helpers.py).  A str is a sequence of            *)
(* one-character strings.                                                  *)
(***************************************************************************)
Min(a, b) == IF a < b THEN a ELSE b
Max(a, b) == IF a > b THEN a ELSE b

\* s[:n]
PyPrefix(s, n) ==
    IF n >= 0 THEN SubSeq(s, 1, Min(n, Len(s)))
    ELSE SubSeq(s, 1, Max(0, Len(s) + n))

\* s[-n:] for n > 0
PySuffix(s, n) == SubSeq(s, Max(1, Len(s) - n + 1), Len(s))

\* truncate_text with the middle style favouring the end of the text
truncate_text_favor_end(text, max_chars, style, ellipsis) ==
    IF Len(text) <= max_chars THEN text
    ELSE LET available == max_chars - Len(ellipsis)
         IN  IF available <= 0 THEN PyPrefix(ellipsis, max_chars)
             ELSE IF style = "middle"
             THEN LET start_len == available \div 2
                      end_len   == available - start_len
                  IN  IF end_len > 0
                      THEN PyPrefix(text, start_len) \o ellipsis \o PySuffix(text, end_len)
                      ELSE PyPrefix(text, start_len) \o ellipsis
             ELSE IF style = "start"
             THEN ellipsis \o PySuffix(text, available)
             ELSE PyPrefix(text, available) \o ellipsis

\* truncate_text returning the whole ellipsis when nothing else fits
truncate_text_whole_ellipsis(text, max_chars, style, ellipsis) ==
    IF Len(text) <= max_chars THEN text
    ELSE LET available == max_chars - Len(ellipsis)
         IN  IF available <= 0 THEN ellipsis
             ELSE IF style = "middle"
             THEN LET start_len == (available + 1) \div 2
                      end_len   == available - start_len
                  IN  IF end_len > 0
                      THEN PyPrefix(text, start_len) \o ellipsis \o PySuffix(text, end_len)
                      ELSE PyPrefix(text, start_len) \o ellipsis
             ELSE IF style = "start"
             THEN ellipsis \o PySuffix(text, available)
             ELSE PyPrefix(text, available) \o ellipsis

truncate_text(text, max_chars, style, ellipsis) ==
    IF Len(text) <= max_chars THEN text
    ELSE LET available == max_chars - Len(ellipsis)
         IN  IF available <= 0 THEN PyPrefix(ellipsis, max_chars)
             ELSE IF style = "middle"
             THEN LET start_len == (available + 1) \div 2
                      end_len   == available - start_len
                  IN  IF end_len > 0
                      THEN PyPrefix(text, start_len) \o ellipsis \o PySuffix(text, end_len)
                      ELSE PyPrefix(text, start_len) \o ellipsis
             ELSE IF style = "start"
             THEN ellipsis \o PySuffix(text, available)
             ELSE PyPrefix(text, available) \o ellipsis

\* calculate_percent without the upper clamp
calculate_percent_no_upper_clamp(value, min_val, max_val) ==
    LET value_range == FSub(max_val, min_val)
    IN  IF FCmp(value_range, FZero) <= 0 THEN FZero
        ELSE PyMax(FZero,
                   FMul(FDiv(FSub(value, min_val), value_range), FromInt(100)))

calculate_percent(value, min_val, max_val) ==
    LET value_range == FSub(max_val, min_val)
    IN  IF FCmp(value_range, FZero) <= 0 THEN FZero
        ELSE PyMax(FZero,
                   PyMin(FromInt(100),
                         FMul(FDiv(FSub(value, min_val), value_range), FromInt(100))))

(***************************************************************************)
(* State.  Layouts are rebuilt from configuration for every render pass    *)
(* and the helpers are pure, so a behaviour is one call: `call` holds the  *)
(* call and its arguments, drawn by the initial condition, and the action  *)
(* for that call runs it to completion, leaving the slots of the           *)
(* constructed layout in `slots` or, in `result`, the value returned (for  *)
(* a drawing method: the operations performed on the ImageDraw object).    *)
(*                                                                         *)
(* The integration itself is stateful.  `home_assistant` is the Home       *)
(* Assistant instance (hass) as the integration sees it: the coordinators  *)
(* in hass.data[DOMAIN], the registered services and the config entries.   *)
(* `heap` holds the dicts and lists of the config entries' options as      *)
(* Python objects, so that copying an object differs from changing it in   *)
(* place.  `sensor` is the state of the sensor platform of one config      *)
(* entry.  A call of the stateless part leaves these three unchanged, and  *)
(* for a service call `call` holds the data of the call being handled.     *)
(***************************************************************************)
VARIABLES pc, call, slots, result, home_assistant, heap, sensor

vars == <<pc, call, slots, result, home_assistant, heap, sensor>>

MaxPadding == 20
MaxGap == 9
MaxColPadding == 1
MaxFooterSlots == 3
MaxColRatio == 4

Paddings == 0..MaxPadding
Gaps == 0..MaxGap
ColPaddings == 0..MaxColPadding

Tenths(S) == {[num |-> n, den |-> 10] : n \in S}
Hundredths(S) == {[num |-> n, den |-> 100] : n \in S}

\* requested split ratios: below, at, between and above the clamp bounds
SplitRatios == Tenths({-5, 0, 1, 2, 3, 5, 7, 8, 9, 10, 15})

\* hero ratios: the default 0.7, the ends 0.0 and 1.0, values outside [0, 1]
HeroRatios == Tenths({-5, 0, 5, 7, 10, 15}) \cup Hundredths({58, 75})

\* column ratios: small integers, as written or as hundredths
ColRatios == {[i \in 1..3 |-> [num |-> t[i], den |-> d]] :
                t \in [1..3 -> 1..MaxColRatio], d \in {1, 100}}

SplitCalls ==
    {[kind |-> "split", horizontal |-> h, ratio |-> r, padding |-> p, gap |-> g] :
        h \in BOOLEAN, r \in SplitRatios, p \in Paddings, g \in Gaps}

HeroCalls ==
    {[kind |-> "hero", footer_slots |-> n, hero_ratio |-> r, padding |-> p, gap |-> g] :
        n \in 1..MaxFooterSlots, r \in HeroRatios, p \in Paddings, g \in Gaps}

ColumnCalls ==
    {[kind |-> "three_column", ratios |-> rs, padding |-> p, gap |-> g] :
        rs \in ColRatios, p \in ColPaddings, g \in Gaps}

MaxTextLen == 10
MaxChars == 10
MaxEllipsisLen == 3

Alphabet ==
    << "a", "b", "c", "d", "e", "f", "g", "h", "i", "j", "k", "l", "m",
       "n", "o", "p", "q", "r", "s", "t", "u", "v", "w", "x", "y", "z" >>

Texts == {SubSeq(Alphabet, 1, n) : n \in 0..MaxTextLen}
Ellipses == {[i \in 1..n |-> "."] : n \in 0..MaxEllipsisLen}
Styles == {"end", "middle", "start", "other"}

TruncateCalls ==
    {[kind |-> "truncate_text", text |-> t, max_chars |-> m, style |-> st, ellipsis |-> e] :
        t \in Texts, m \in -1..MaxChars, st \in Styles, e \in Ellipses}

\* calculate_percent arguments: integers below, at, inside and above the range
PercentValues == {-50, -1, 0, 1, 5, 10, 29, 33, 50, 99, 100, 101, 150}
PercentMins == {-10, 0, 10, 100}
PercentMaxs == {-10, 0, 3, 10, 100}

PercentCalls ==
    {[kind |-> "calculate_percent", value |-> v, min_val |-> lo, max_val |-> hi] :
        v \in PercentValues, lo \in PercentMins, hi \in PercentMaxs}

InitWith(calls) ==
    /\ pc = "call"
    /\ call \in calls
    /\ slots = <<>>
    /\ result = "none"
    /\ home_assistant = "none"
    /\ heap = <<>>
    /\ sensor = "none"

\* SplitLayout(horizontal, ratio, padding, gap)
NewSplitLayout ==
    /\ pc = "call"
    /\ call.kind = "split"
    /\ slots' = SplitSlots(call.horizontal, SplitRatio(LitOf(call.ratio)),
                           call.padding, call.gap)
    /\ pc' = "done"
    /\ UNCHANGED <<call, result, home_assistant, heap, sensor>>

\* HeroLayout(footer_slots, hero_ratio, padding, gap)
NewHeroLayout ==
    /\ pc = "call"
    /\ call.kind = "hero"
    /\ slots' = HeroSlots(call.footer_slots, LitOf(call.hero_ratio),
                          call.padding, call.gap)
    /\ pc' = "done"
    /\ UNCHANGED <<call, result, home_assistant, heap, sensor>>

\* ThreeColumnLayout(ratios, padding, gap)
NewThreeColumnLayout ==
    /\ pc = "call"
    /\ call.kind = "three_column"
    /\ LET rs == [i \in 1..3 |-> LitOf(call.ratios[i])]
       IN  \E total_ratio \in PySums(rs) :
             slots' = ThreeColumnSlots(rs, total_ratio, call.padding, call.gap)
    /\ pc' = "done"
    /\ UNCHANGED <<call, result, home_assistant, heap, sensor>>

\* truncate_text(text, max_chars, style, ellipsis)
TruncateText ==
    /\ pc = "call"
    /\ call.kind = "truncate_text"
    /\ result' = truncate_text(call.text, call.max_chars, call.style, call.ellipsis)
    /\ pc' = "done"
    /\ UNCHANGED <<call, slots, home_assistant, heap, sensor>>

\* calculate_percent(value, min_val, max_val)
CalculatePercent ==
    /\ pc = "call"
    /\ call.kind = "calculate_percent"
    /\ result' = calculate_percent(FromInt(call.value), FromInt(call.min_val),
                                   FromInt(call.max_val))
    /\ pc' = "done"
    /\ UNCHANGED <<call, slots, home_assistant, heap, sensor>>

SplitInit == InitWith(SplitCalls)
SplitSpec == SplitInit /\ [][NewSplitLayout]_vars

HeroInit == InitWith(HeroCalls)
HeroSpec == HeroInit /\ [][NewHeroLayout]_vars

ColumnInit == InitWith(ColumnCalls)
ColumnSpec == ColumnInit /\ [][NewThreeColumnLayout]_vars

LayoutInit == InitWith(SplitCalls \cup HeroCalls \cup ColumnCalls)
LayoutNext ==
    \/ NewSplitLayout
    \/ NewHeroLayout
    \/ NewThreeColumnLayout
LayoutSpec == LayoutInit /\ [][LayoutNext]_vars

TextInit == InitWith(TruncateCalls)
TextSpec == TextInit /\ [][TruncateText]_vars

PercentInit == InitWith(PercentCalls)
PercentSpec == PercentInit /\ [][CalculatePercent]_vars

(***************************************************************************)
(* Properties                                                              *)
(***************************************************************************)
Done == pc = "done"

Width(rect) == rect[3] - rect[1]
Height(rect) == rect[4] - rect[2]

\* a / b truncated toward zero, b > 0
TruncDiv(a, b) == IF a >= 0 THEN a \div b ELSE -((-a) \div b)

\* the extent of the first split panel along the split axis
SplitFirstExtent ==
    IF call.horizontal THEN Height(slots[1].rect) ELSE Width(slots[1].rect)

\* the display length along the split axis between the two paddings
SplitInterior ==
    IF call.horizontal THEN DisplayHeight - 2 * call.padding
    ELSE DisplayWidth - 2 * call.padding

\* C1: a SplitLayout is built for every requested ratio, and a requested ratio
\* of at most 0.2 (at least 0.8) gives the first panel the extent computed
\* from 0.2 (0.8): two tenths (eight tenths) of the interior, truncated, less
\* half the gap.
C1_SplitRatioClamped ==
    (Done /\ call.kind = "split") =>
        /\ Len(slots) = 2
        /\ (call.ratio.num * 10 <= 2 * call.ratio.den) =>
               SplitFirstExtent = (SplitInterior * 2) \div 10 - (call.gap \div 2)
        /\ (call.ratio.num * 10 >= 8 * call.ratio.den) =>
               SplitFirstExtent = (SplitInterior * 8) \div 10 - (call.gap \div 2)

\* SplitLayout(ratio=0.0, padding=8, gap=8): the left panel is 40 wide, as for 0.2
C1_Witness ==
    /\ Done
    /\ call.kind = "split"
    /\ call.ratio = [num |-> 0, den |-> 10]
    /\ ~call.horizontal
    /\ call.padding = 8
    /\ call.gap = 8
    /\ slots[1].rect = <<8, 8, 48, 232>>

\* C2: every slot rectangle of a hero, split or three-column layout has
\* x1 < x2 and y1 < y2.
C2_ProperRectangles ==
    Done => \A i \in 1..Len(slots) :
                /\ slots[i].rect[1] < slots[i].rect[3]
                /\ slots[i].rect[2] < slots[i].rect[4]

\* C3: the last slot of every layout ends exactly at x = width - padding and
\* y = height - padding.
C3_LastSlotAtEdge ==
    Done => /\ slots[Len(slots)].rect[3] = DisplayWidth - call.padding
            /\ slots[Len(slots)].rect[4] = DisplayHeight - call.padding

\* C4: HeroLayout(footer_slots=N) has slots 0..N in order; slot 0 spans the
\* interior width from y = padding; the footer slots have one width, start
\* gap pixels below slot 0, end at height - padding and are gap pixels apart.
C4_HeroStructure ==
    (Done /\ call.kind = "hero") =>
        LET n == call.footer_slots
            p == call.padding
            g == call.gap
        IN  /\ Len(slots) = 1 + n
            /\ \A i \in 1..(1 + n) : slots[i].index = i - 1
            /\ slots[1].rect[1] = p
            /\ slots[1].rect[2] = p
            /\ slots[1].rect[3] = DisplayWidth - p
            /\ \A i \in 2..(1 + n) :
                   /\ Width(slots[i].rect) = Width(slots[2].rect)
                   /\ slots[i].rect[2] = slots[1].rect[4] + g
                   /\ slots[i].rect[4] = DisplayHeight - p
            /\ \A i \in 2..n :
                   /\ slots[i + 1].rect[1] - slots[i].rect[3] = g
                   /\ slots[i].rect[3] <= slots[i + 1].rect[1]

\* HeroLayout(footer_slots=3, hero_ratio=0.7, padding=8, gap=8)
C4_Witness ==
    /\ Done
    /\ call = [kind |-> "hero", footer_slots |-> 3,
               hero_ratio |-> [num |-> 7, den |-> 10], padding |-> 8, gap |-> 8]
    /\ slots = << Slot(0, <<8, 8, 232, 159>>), Slot(1, <<8, 167, 77, 232>>),
                  Slot(2, <<85, 167, 154, 232>>), Slot(3, <<162, 167, 231, 232>>) >>

HeroHeight == Height(slots[1].rect)

\* the ratio num/den is a binary fraction, i.e. a float holds it exactly
ExactRatio(r) == \E k \in 0..7 : (r.num * 2^k) % r.den = 0

C6_SplitTilesInterior ==
    (Done /\ call.kind = "split") =>
        LET p == call.padding
            a == slots[1].rect
            b == slots[2].rect
        IN  /\ Len(slots) = 2
            /\ slots[1].index = 0
            /\ slots[2].index = 1
            /\ IF call.horizontal
               THEN /\ a[1] = p /\ a[3] = DisplayWidth - p
                    /\ b[1] = p /\ b[3] = DisplayWidth - p
                    /\ a[2] = p
                    /\ b[4] = DisplayHeight - p
                    /\ b[2] - a[4] = call.gap
                    /\ Height(a) + call.gap + Height(b) = DisplayHeight - 2 * p
               ELSE /\ a[2] = p /\ a[4] = DisplayHeight - p
                    /\ b[2] = p /\ b[4] = DisplayHeight - p
                    /\ a[1] = p
                    /\ b[3] = DisplayWidth - p
                    /\ b[1] - a[3] = call.gap
                    /\ Width(a) + call.gap + Width(b) = DisplayWidth - 2 * p

\* SplitLayout(horizontal=True, ratio=0.5, padding=3, gap=9)
C6_Witness ==
    /\ Done
    /\ call = [kind |-> "split", horizontal |-> TRUE,
               ratio |-> [num |-> 5, den |-> 10], padding |-> 3, gap |-> 9]
    /\ slots = << Slot(0, <<3, 3, 237, 116>>), Slot(1, <<3, 125, 237, 237>>) >>

\* C7: ThreeColumnLayout has slots 0, 1, 2 from left to right, gap pixels
\* apart, of widths trunc(A * r_i / (r_0 + r_1 + r_2)) for A the width less
\* both paddings and two gaps (so a common factor of the ratios does not
\* matter), and the widths sum to at most A.
C7_ColumnWidths ==
    (Done /\ call.kind = "three_column") =>
        LET a == DisplayWidth - 2 * call.padding - 2 * call.gap
            n == [i \in 1..3 |-> call.ratios[i].num]
            total == n[1] + n[2] + n[3]
        IN  /\ Len(slots) = 3
            /\ \A i \in 1..3 : slots[i].index = i - 1
            /\ slots[1].rect[1] = call.padding
            /\ \A i \in 1..2 : slots[i + 1].rect[1] - slots[i].rect[3] = call.gap
            /\ \A i \in 1..3 : Width(slots[i].rect) = (a * n[i]) \div total
            /\ Width(slots[1].rect) + Width(slots[2].rect) + Width(slots[3].rect) <= a

Str10 == SubSeq(Alphabet, 1, 10)

\* C8: when the text is longer than max_chars and max_chars exceeds the
\* length of the ellipsis by available > 0, "end" keeps the first available
\* characters before the ellipsis, "start" the last available after it, and
\* "middle" the first (available + 1) \div 2 and the last remaining ones
\* around it; in particular ("abcdefghij", 6, end) = "abcd..",
\* ("abcdefghij", 6, start) = "..ghij", ("abcdefghij", 7, middle) = "abc..ij".
C8_TruncateStyles ==
    (Done /\ call.kind = "truncate_text") =>
        LET text == call.text
            n == Len(text)
            e == call.ellipsis
            available == call.max_chars - Len(e)
            start_len == (available + 1) \div 2
        IN  /\ (n > call.max_chars /\ available > 0) =>
                 /\ call.style = "end" =>
                        result = SubSeq(text, 1, available) \o e
                 /\ call.style = "start" =>
                        result = e \o SubSeq(text, n - available + 1, n)
                 /\ call.style = "middle" =>
                        result = SubSeq(text, 1, start_len) \o e
                                 \o SubSeq(text, n - (available - start_len) + 1, n)
            /\ (text = Str10 /\ e = <<".", ".">>) =>
                 /\ (call.max_chars = 6 /\ call.style = "end") =>
                        result = <<"a", "b", "c", "d", ".", ".">>
                 /\ (call.max_chars = 6 /\ call.style = "start") =>
                        result = <<".", ".", "g", "h", "i", "j">>
                 /\ (call.max_chars = 7 /\ call.style = "middle") =>
                        result = <<"a", "b", "c", ".", ".", "i", "j">>

\* truncate_text("abcdefghij", 7, "middle") = "abc..ij"
C8_Witness ==
    /\ Done
    /\ call = [kind |-> "truncate_text", text |-> Str10, max_chars |-> 7,
               style |-> "middle", ellipsis |-> <<".", ".">>]
    /\ result = <<"a", "b", "c", ".", ".", "i", "j">>

\* C9: for max_chars >= 0 a text of at most max_chars characters is returned
\* unchanged, and any longer text yields at most max_chars characters; when
\* max_chars does not exceed the length of the ellipsis these are the first
\* max_chars characters of the ellipsis.
C9_TruncateLength ==
    (Done /\ call.kind = "truncate_text" /\ call.max_chars >= 0) =>
        IF Len(call.text) <= call.max_chars
        THEN result = call.text
        ELSE /\ Len(result) <= call.max_chars
             /\ call.max_chars <= Len(call.ellipsis) =>
                    result = SubSeq(call.ellipsis, 1, call.max_chars)

\* truncate_text("abcdefghij", 2, "end", "...") = ".."
C9_Witness ==
    /\ Done
    /\ call = [kind |-> "truncate_text", text |-> Str10, max_chars |-> 2,
               style |-> "end", ellipsis |-> <<".", ".", ".">>]
    /\ result = <<".", ".">>

\* the positive float f differs from the fraction n/d (n, d > 0) by at most
\* 2^-40
FNear(f, n, d) ==
    LET k  == IF f.e < 0 THEN -f.e ELSE 0
        fd == BMul(BShl(f.m, f.e + k), BFromInt(d))
        nk == BShl(BFromInt(n), k)
        diff == IF BCmp(fd, nk) >= 0 THEN BSub(fd, nk) ELSE BSub(nk, fd)
    IN  /\ f.s = 1
        /\ BCmp(BShl(diff, 40), BShl(BFromInt(d), k)) <= 0

\* C10: calculate_percent returns a number in [0, 100]: 0 when max - min <= 0,
\* otherwise (value - min) / (max - min) * 100 (as a float) clamped to 0 below
\* and to 100 above; (150, 0, 100) gives 100 and (5, 10, 10) gives 0.
C10_PercentClamped ==
    (Done /\ call.kind = "calculate_percent") =>
        LET d == call.max_val - call.min_val
            n == 100 * (call.value - call.min_val)
        IN  /\ FCmp(result, FZero) >= 0
            /\ FCmp(result, FromInt(100)) <= 0
            /\ d <= 0 => result = FZero
            /\ (d > 0 /\ n <= 0) => result = FZero
            /\ (d > 0 /\ n >= 100 * d) => result = FromInt(100)
            /\ (d > 0 /\ n > 0 /\ n < 100 * d) => FNear(result, n, d)
            /\ (call.value = 150 /\ call.min_val = 0 /\ call.max_val = 100) =>
                   result = FromInt(100)
            /\ (call.value = 5 /\ call.min_val = 10 /\ call.max_val = 10) =>
                   result = FZero

\* calculate_percent(150, 0, 100) = 100.0
C10_Witness ==
    /\ Done
    /\ call = [kind |-> "calculate_percent", value |-> 150, min_val |-> 0, max_val |-> 100]
    /\ result = [s |-> 1, m |-> <<25>>, e |-> 2]

(***************************************************************************)
(* Entity states (widgets/helpers.py).  A Python value is a record with    *)
(* its type in the field `type`: None, a str (its characters in `chars`),  *)
(* and a Home Assistant State with its entity id, its state string and     *)
(* its attributes (a function from the attribute names that are present    *)
(* to their values).                                                       *)
(***************************************************************************)
None == [type |-> "NoneType"]

State(entity_id, state, attributes) ==
    [type |-> "State", entity_id |-> entity_id, state |-> state,
     attributes |-> attributes]

UpperAlphabet ==
    <<"A", "B", "C", "D", "E", "F", "G", "H", "I", "J", "K", "L", "M",
      "N", "O", "P", "Q", "R", "S", "T", "U", "V", "W", "X", "Y", "Z">>

\* str.lower() and str.upper() on ASCII text
lower(s) ==
    [i \in 1..Len(s) |->
        IF \E k \in 1..26 : UpperAlphabet[k] = s[i]
        THEN Alphabet[CHOOSE k \in 1..26 : UpperAlphabet[k] = s[i]]
        ELSE s[i]]

upper(s) ==
    [i \in 1..Len(s) |->
        IF \E k \in 1..26 : Alphabet[k] = s[i]
        THEN UpperAlphabet[CHOOSE k \in 1..26 : Alphabet[k] = s[i]]
        ELSE s[i]]

ON_STATES ==
    {<<"o", "n">>, <<"t", "r", "u", "e">>, <<"h", "o", "m", "e">>,
     <<"l", "o", "c", "k", "e", "d">>, <<"1">>}

\* is_entity_on comparing the state string as it is
is_entity_on_case_sensitive(state) ==
    IF state = None THEN FALSE
    ELSE state.state \in ON_STATES

is_entity_on(state) ==
    IF state = None THEN FALSE
    ELSE lower(state.state) \in ON_STATES

\* every way of writing a word in upper- and lower-case letters
CaseVariants(word) ==
    {[i \in 1..Len(word) |-> IF i \in U THEN upper(word)[i] ELSE word[i]] :
        U \in SUBSET (1..Len(word))}

OffWords ==
    {<<"o", "f", "f">>, <<"u", "n", "l", "o", "c", "k", "e", "d">>,
     <<"u", "n", "k", "n", "o", "w", "n">>, <<"o", "n", "n">>, <<"o">>,
     <<"0">>, <<"1", "1">>, <<"y", "e", "s">>, <<" ", "o", "n">>, <<>>}

StateStrings ==
    UNION {CaseVariants(w) : w \in ON_STATES \cup OffWords}

EntityOnCalls ==
    {[kind |-> "is_entity_on", state |-> s] :
        s \in {None} \cup {State(<<>>, t, <<>>) : t \in StateStrings}}

\* is_entity_on(state)
IsEntityOn ==
    /\ pc = "call"
    /\ call.kind = "is_entity_on"
    /\ result' = is_entity_on(call.state)
    /\ pc' = "done"
    /\ UNCHANGED <<call, slots, home_assistant, heap, sensor>>

EntityOnInit == InitWith(EntityOnCalls)
EntityOnSpec == EntityOnInit /\ [][IsEntityOn]_vars

\* the text s is the lower-case word w with some letters in upper case
SameIgnoringCase(s, w) ==
    /\ Len(s) = Len(w)
    /\ \A i \in 1..Len(s) :
          \/ s[i] = w[i]
          \/ \E k \in 1..26 : w[i] = Alphabet[k] /\ s[i] = UpperAlphabet[k]

\* C11: is_entity_on returns True exactly when a state is present and its
\* state string is, up to the case of its letters, one of "on", "true",
\* "home", "locked", "1"; it returns False for every other string ("off",
\* "unlocked", "unknown") and when the state is absent.
C11_EntityOn ==
    (Done /\ call.kind = "is_entity_on") =>
        /\ result \in BOOLEAN
        /\ result <=>
              /\ call.state.type = "State"
              /\ \E w \in {<<"o", "n">>, <<"t", "r", "u", "e">>,
                           <<"h", "o", "m", "e">>,
                           <<"l", "o", "c", "k", "e", "d">>, <<"1">>} :
                    SameIgnoringCase(call.state.state, w)
        /\ call.state.type = "NoneType" => result = FALSE
        /\ (call.state.type = "State"
              /\ call.state.state \in {<<"O", "N">>, <<"h", "o", "m", "e">>})
                => result = TRUE
        /\ (call.state.type = "State"
              /\ call.state.state \in {<<"o", "f", "f">>,
                                       <<"u", "n", "k", "n", "o", "w", "n">>})
                => result = FALSE

\* is_entity_on of a state "ON" is True
C11_Witness ==
    /\ Done
    /\ call.kind = "is_entity_on"
    /\ call.state.type = "State"
    /\ call.state.state = <<"O", "N">>
    /\ result = TRUE

(***************************************************************************)
(* Numeric extraction (widgets/helpers.py).  Further Python values: a str  *)
(* [type |-> "str", chars], an int of any size [type |-> "int", s, m]      *)
(* (sign and magnitude), a float [type |-> "float", value], a bool and a   *)
(* list.  A float value is a binary64 record as above, an infinity or a    *)
(* NaN.  A call ends by returning a value or by raising an exception.      *)
(***************************************************************************)
Str(chars) == [type |-> "str", chars |-> chars]

PyInt(n) ==
    [type |-> "int", s |-> IF n < 0 THEN -1 ELSE 1,
     m |-> BFromInt(IF n < 0 THEN -n ELSE n)]

Float(f) == [type |-> "float", value |-> f]

Bool(b) == [type |-> "bool", truth |-> b]

List == [type |-> "list"]

Inf(s) == [s |-> s, special |-> "inf"]

NaN == [s |-> 1, special |-> "nan"]

Return(value) == [kind |-> "return", value |-> value]

Raise(exc) == [kind |-> "raise", exc |-> exc]

\* dict.get(key, default)
Get(dict, key, default) == IF key \in DOMAIN dict THEN dict[key] ELSE default

Digits == <<"0", "1", "2", "3", "4", "5", "6", "7", "8", "9">>

IsDigit(c) == \E d \in 1..10 : Digits[d] = c

DigitValue(c) == (CHOOSE d \in 1..10 : Digits[d] = c) - 1

Whitespace == {" ", "\t", "\n", "\r"}

\* str.strip()
strip(s) ==
    LET keep == {i \in 1..Len(s) : s[i] \notin Whitespace}
    IN  IF keep = {} THEN <<>>
        ELSE SubSeq(s, CHOOSE i \in keep : \A j \in keep : i <= j,
                       CHOOSE i \in keep : \A j \in keep : i >= j)

RECURSIVE DigitRunEnd(_, _)
\* the index after the digits of t that start at i; a single underscore may
\* stand between two digits
DigitRunEnd(t, i) ==
    IF i > Len(t) THEN i
    ELSE IF IsDigit(t[i]) THEN DigitRunEnd(t, i + 1)
    ELSE IF /\ t[i] = "_"
            /\ i > 1
            /\ i < Len(t)
            /\ IsDigit(t[i - 1])
            /\ IsDigit(t[i + 1])
         THEN DigitRunEnd(t, i + 1)
    ELSE i

RECURSIVE BDecimalAt(_, _, _)
BDecimalAt(t, i, acc) ==
    IF i > Len(t) THEN acc
    ELSE IF t[i] = "_" THEN BDecimalAt(t, i + 1, acc)
    ELSE BDecimalAt(t, i + 1,
                    BAdd(BMulSmall(acc, 10), BFromInt(DigitValue(t[i]))))

\* the natural number written by the digits of t
BDecimal(t) == BDecimalAt(t, 1, <<>>)

RECURSIVE BPow10(_)
BPow10(k) == IF k = 0 THEN <<1>> ELSE BMulSmall(BPow10(k - 1), 10)

\* the float nearest to s * num * 10^e10, for a value in the range of the
\* normal binary64 numbers
DecimalToFloat(s, num, e10) ==
    IF e10 >= 0
    THEN FRound(s, BMul(num, BPow10(e10)), 0, FALSE)
    ELSE FDiv([s |-> s, m |-> num, e |-> 0],
              [s |-> 1, m |-> BPow10(-e10), e |-> 0])

\* float(chars) for a str of ASCII characters
float_of_str(chars) ==
    LET t == strip(chars)
        signed == t # <<>> /\ t[1] \in {"+", "-"}
        s == IF signed /\ t[1] = "-" THEN -1 ELSE 1
        i0 == IF signed THEN 2 ELSE 1
        body == lower(SubSeq(t, i0, Len(t)))
        i1 == DigitRunEnd(t, i0)
        dot == i1 <= Len(t) /\ t[i1] = "."
        i2 == IF dot THEN DigitRunEnd(t, i1 + 1) ELSE i1
        int_part == SubSeq(t, i0, i1 - 1)
        frac_part == IF dot THEN SubSeq(t, i1 + 1, i2 - 1) ELSE <<>>
        has_exp == i2 <= Len(t) /\ t[i2] \in {"e", "E"}
        exp_signed == has_exp /\ i2 + 1 <= Len(t) /\ t[i2 + 1] \in {"+", "-"}
        i3 == IF exp_signed THEN i2 + 2 ELSE i2 + 1
        i4 == IF has_exp THEN DigitRunEnd(t, i3) ELSE i2
        exp_part == IF has_exp THEN SubSeq(t, i3, i4 - 1) ELSE <<>>
        exp == (IF exp_signed /\ t[i2 + 1] = "-" THEN -1 ELSE 1)
                 * BToInt(BDecimal(exp_part))
        frac_digits == Cardinality({i \in 1..Len(frac_part) : IsDigit(frac_part[i])})
        ok == /\ int_part \o frac_part # <<>>
              /\ has_exp => exp_part # <<>>
              /\ i4 = Len(t) + 1
    IN  IF body \in {<<"i", "n", "f">>, <<"i", "n", "f", "i", "n", "i", "t", "y">>}
        THEN Return(Inf(s))
        ELSE IF body = <<"n", "a", "n">> THEN Return(NaN)
        ELSE IF ~ok THEN Raise("ValueError")
        ELSE Return(DecimalToFloat(s, BDecimal(int_part \o frac_part),
                                   exp - frac_digits))

\* float(x)
float(x) ==
    IF x.type = "float" THEN Return(x.value)
    ELSE IF x.type = "bool" THEN Return(FromInt(IF x.truth THEN 1 ELSE 0))
    ELSE IF x.type = "int"
         THEN LET f == FRound(x.s, x.m, 0, FALSE)
              IN  IF BBitLen(f.m) + f.e > 1024
                  THEN Raise("OverflowError")
                  ELSE Return(f)
    ELSE IF x.type = "str" THEN float_of_str(x.chars)
    ELSE Raise("TypeError")

\* bool(attribute) of a str | None
Truthy(x) == x # None /\ x.chars # <<>>

extract_numeric(state, attribute, default) ==
    IF state = None THEN Return(default)
    ELSE LET raw_value == IF Truthy(attribute)
                          THEN Get(state.attributes, attribute.chars, None)
                          ELSE Str(state.state)
         IN  IF raw_value = None THEN Return(default)
             ELSE LET parsed == float(raw_value)
                  IN  IF /\ parsed.kind = "raise"
                         /\ parsed.exc \in {"ValueError", "TypeError"}
                      THEN Return(default)
                      ELSE parsed

MaxNumberLen == 3

NumberAlphabet == {"1", "5", "0", ".", "-", "e", " ", "x"}

NumberStrings ==
    UNION {[1..n -> NumberAlphabet] : n \in 0..MaxNumberLen}
      \cup {<<"1", "_", "0">>, <<"1", "_", "_", "0">>, <<"1", "_">>,
            <<"+", "1", ".", "5", "E", "+", "1">>, <<"1", "e", "2", "2">>,
            <<"2", "3", ".", "4", "7">>, <<"\t", "7", "\n">>,
            <<"i", "n", "f">>, <<"-", "I", "n", "f", "i", "n", "i", "t", "y">>,
            <<"n", "a", "n">>, <<"o", "n">>,
            <<"u", "n", "a", "v", "a", "i", "l", "a", "b", "l", "e">>}

level == <<"l", "e", "v", "e", "l">>

AttributeValues ==
    {None, List, Bool(TRUE), PyInt(0), PyInt(-42), Float(Lit(235, 10)),
     Str(<<"7", "1", ".", "5">>), Str(<<"h", "i", "g", "h">>), Str(<<>>),
     [type |-> "int", s |-> 1, m |-> BShl(<<1>>, 1023)],
     [type |-> "int", s |-> 1, m |-> BShl(<<1>>, 1024)],
     [type |-> "int", s |-> -1, m |-> BShl(<<1>>, 1030)]}

Defaults == {FZero, FromInt(-1)}

ExtractCalls ==
    {[kind |-> "extract_numeric", state |-> s, attribute |-> a, default |-> d] :
        s \in {None} \cup {State(<<>>, t, <<>>) : t \in NumberStrings},
        a \in {None},
        d \in Defaults}
    \cup
    {[kind |-> "extract_numeric", state |-> s, attribute |-> a, default |-> d] :
        s \in {None, State(<<>>, <<"1", "5">>, <<>>)}
              \cup {State(<<>>, <<"1", "5">>, [k \in {level} |-> v]) :
                        v \in AttributeValues},
        a \in {Str(<<>>), Str(level)},
        d \in Defaults}

\* extract_numeric(state, attribute, default)
ExtractNumeric ==
    /\ pc = "call"
    /\ call.kind = "extract_numeric"
    /\ result' = extract_numeric(call.state, call.attribute, call.default)
    /\ pc' = "done"
    /\ UNCHANGED <<call, slots, home_assistant, heap, sensor>>

ExtractInit == InitWith(ExtractCalls)
ExtractSpec == ExtractInit /\ [][ExtractNumeric]_vars

\* C12: extract_numeric never raises: it returns the default when the state
\* is absent, when the selected raw value (the state string, or the named
\* attribute if a name is given) is missing or None, or when float() cannot
\* convert that raw value; otherwise it returns the number float() yields.
C12_ExtractNumericTotal ==
    (Done /\ call.kind = "extract_numeric") =>
        LET named == call.attribute # None /\ call.attribute.chars # <<>>
            raw == IF call.state = None THEN None
                   ELSE IF ~named THEN Str(call.state.state)
                   ELSE IF call.attribute.chars \in DOMAIN call.state.attributes
                        THEN call.state.attributes[call.attribute.chars]
                        ELSE None
        IN  /\ result.kind = "return"
            /\ IF raw = None \/ float(raw).kind = "raise"
               THEN result.value = call.default
               ELSE result = float(raw)

(***************************************************************************)
(* Renderer (renderer.py).  A drawing method leaves in `result` the        *)
(* sequence of operations it performs on the ImageDraw object.  A colour   *)
(* is an RGB tuple; a point is a pair of numbers.                          *)
(***************************************************************************)
\* draw.rectangle(xy, fill=fill)
Rectangle(xy, fill) == [op |-> "rectangle", xy |-> xy, fill |-> fill]

draw_bar(rect, percent, color, background) ==
    LET x1 == rect[1]
        y1 == rect[2]
        x2 == rect[3]
        y2 == rect[4]
        width == x2 - x1
        fill_width == Trunc(FMul(FromInt(width), FDiv(percent, FromInt(100))))
    IN  <<Rectangle(rect, background)>>
          \o (IF fill_width > 0
              THEN <<Rectangle(<<x1, y1, x1 + fill_width, y2>>, color)>>
              ELSE <<>>)

BarPercents ==
    Tenths({-500, -10, -1, 0, 1, 5, 10, 333, 500, 999, 1000, 1001, 1005,
            1010, 1500, 2000})

BarWidths == {0, 1, 7, 100, 220}

BarCalls ==
    {[kind |-> "draw_bar", rect |-> <<x1, 5, x1 + w, 11>>, percent |-> p,
      color |-> <<0, 255, 255>>, background |-> <<100, 100, 100>>] :
        x1 \in {0, 10}, w \in BarWidths, p \in BarPercents}

\* Renderer.draw_bar(draw, rect, percent, color, background)
DrawBar ==
    /\ pc = "call"
    /\ call.kind = "draw_bar"
    /\ result' = draw_bar(call.rect, LitOf(call.percent), call.color,
                          call.background)
    /\ pc' = "done"
    /\ UNCHANGED <<call, slots, home_assistant, heap, sensor>>

BarInit == InitWith(BarCalls)
BarSpec == BarInit /\ [][DrawBar]_vars

\* C13: draw_bar never fills outside its bounding box: the background is
\* drawn over the box, with a percent of 0 or less nothing else is drawn, and
\* for every percent, also above 100, the fill rectangle starts at x1 and its
\* right edge x1 + fill_width is at most x2.
C13_BarInsideBox ==
    (Done /\ call.kind = "draw_bar") =>
        /\ Len(result) \in {1, 2}
        /\ result[1] = Rectangle(call.rect, call.background)
        /\ call.percent.num <= 0 => Len(result) = 1
        /\ Len(result) = 2 =>
              /\ result[2].fill = call.color
              /\ result[2].xy[1] = call.rect[1]
              /\ result[2].xy[2] = call.rect[2]
              /\ result[2].xy[4] = call.rect[4]
              /\ result[2].xy[3] <= call.rect[3]

\* draw.polygon(xy, fill=fill)
Polygon(xy, fill) == [op |-> "polygon", xy |-> xy, fill |-> fill]

\* draw.line(xy, fill=fill, width=width)
Line(xy, fill, width) ==
    [op |-> "line", xy |-> xy, fill |-> fill, width |-> width]

\* one coordinate of the Catmull-Rom spline between p1 and p2 at t
CatmullRom(p0, p1, p2, p3, t) ==
    LET t2 == FMul(t, t)
        t3 == FMul(t2, t)
        a  == FMul(FromInt(2), p1)
        b  == FMul(FAdd(FNeg(p0), p2), t)
        c  == FMul(FSub(FAdd(FSub(FMul(FromInt(2), p0), FMul(FromInt(5), p1)),
                             FMul(FromInt(4), p2)),
                        p3),
                   t2)
        d  == FMul(FAdd(FSub(FAdd(FNeg(p0), FMul(FromInt(3), p1)),
                             FMul(FromInt(3), p2)),
                        p3),
                   t3)
    IN  FMul(Lit(5, 10), FAdd(FAdd(FAdd(a, b), c), d))

interpolate_catmull_rom(points, num_points) ==
    IF Len(points) < 2 THEN points
    ELSE IF Len(points) = 2
    THEN [k \in 1..num_points |->
            LET t == FDiv(FromInt(k - 1), FromInt(num_points - 1))
            IN  <<FAdd(points[1][1], FMul(t, FSub(points[2][1], points[1][1]))),
                  FAdd(points[1][2], FMul(t, FSub(points[2][2], points[1][2])))>>]
    ELSE LET pts == <<points[1]>> \o points \o <<points[Len(points)]>>
             segments == Len(pts) - 3
             points_per_segment == Max(1, num_points \div segments)
         IN  [k \in 1..(segments * points_per_segment) |->
                LET i == (k - 1) \div points_per_segment
                    j == (k - 1) % points_per_segment
                    t == FDiv(FromInt(j), FromInt(points_per_segment))
                IN  <<CatmullRom(pts[i + 1][1], pts[i + 2][1], pts[i + 3][1],
                                 pts[i + 4][1], t),
                      CatmullRom(pts[i + 1][2], pts[i + 2][2], pts[i + 3][2],
                                 pts[i + 4][2], t)>>]
               \o <<pts[Len(pts) - 1]>>

RECURSIVE FMinAt(_, _)
\* min(data[1..n])
FMinAt(data, n) ==
    IF n = 1 THEN data[1]
    ELSE LET m == FMinAt(data, n - 1)
         IN  IF FCmp(data[n], m) < 0 THEN data[n] ELSE m

RECURSIVE FMaxAt(_, _)
\* max(data[1..n])
FMaxAt(data, n) ==
    IF n = 1 THEN data[1]
    ELSE LET m == FMaxAt(data, n - 1)
         IN  IF FCmp(data[n], m) > 0 THEN data[n] ELSE m

\* the control points of draw_sparkline with a flat line in the middle of
\* the box
control_points_flat_centered(rect, data) ==
    LET x1 == rect[1]
        y1 == rect[2]
        x2 == rect[3]
        y2 == rect[4]
        width == x2 - x1
        height == y2 - y1
        min_val == FMinAt(data, Len(data))
        max_val == FMaxAt(data, Len(data))
        range_val == IF max_val # min_val THEN FSub(max_val, min_val)
                     ELSE FromInt(1)
    IN  [k \in 1..Len(data) |->
           <<FAdd(FromInt(x1),
                  FMul(FDiv(FromInt(k - 1), FromInt(Len(data) - 1)),
                       FromInt(width))),
             IF max_val = min_val
             THEN FSub(FromInt(y2), FMul(Lit(5, 10), FromInt(height)))
             ELSE FSub(FromInt(y2),
                       FMul(FDiv(FSub(data[k], min_val), range_val),
                            FromInt(height)))>>]

\* the control points of draw_sparkline for at least two data values
control_points(rect, data) ==
    LET x1 == rect[1]
        y1 == rect[2]
        x2 == rect[3]
        y2 == rect[4]
        width == x2 - x1
        height == y2 - y1
        min_val == FMinAt(data, Len(data))
        max_val == FMaxAt(data, Len(data))
        range_val == IF max_val # min_val THEN FSub(max_val, min_val)
                     ELSE FromInt(1)
    IN  [k \in 1..Len(data) |->
           <<FAdd(FromInt(x1),
                  FMul(FDiv(FromInt(k - 1), FromInt(Len(data) - 1)),
                       FromInt(width))),
             FSub(FromInt(y2),
                  FMul(FDiv(FSub(data[k], min_val), range_val),
                       FromInt(height)))>>]

\* draw_sparkline interpolating whenever smooth is set
draw_sparkline_always_smooth(rect, data, color, fill, smooth) ==
    IF Len(data) < 2 THEN <<>>
    ELSE LET x1 == rect[1]
             x2 == rect[3]
             y2 == rect[4]
             width == x2 - x1
             points == IF smooth
                       THEN interpolate_catmull_rom(control_points(rect, data),
                                                    Max(50, width \div 2))
                       ELSE control_points(rect, data)
         IN  (IF fill
              THEN <<Polygon(<<(<<FromInt(x1), FromInt(y2)>>)>> \o points
                               \o <<(<<FromInt(x2), FromInt(y2)>>)>>,
                             <<color[1] \div 4, color[2] \div 4, color[3] \div 4>>)>>
              ELSE <<>>)
             \o (IF Len(points) >= 2 THEN <<Line(points, color, 2)>> ELSE <<>>)

draw_sparkline(rect, data, color, fill, smooth) ==
    IF Len(data) < 2 THEN <<>>
    ELSE LET x1 == rect[1]
             x2 == rect[3]
             y2 == rect[4]
             width == x2 - x1
             points == IF smooth /\ Len(data) >= 3
                       THEN interpolate_catmull_rom(control_points(rect, data),
                                                    Max(50, width \div 2))
                       ELSE control_points(rect, data)
         IN  (IF fill
              THEN <<Polygon(<<(<<FromInt(x1), FromInt(y2)>>)>> \o points
                               \o <<(<<FromInt(x2), FromInt(y2)>>)>>,
                             <<color[1] \div 4, color[2] \div 4, color[3] \div 4>>)>>
              ELSE <<>>)
             \o (IF Len(points) >= 2 THEN <<Line(points, color, 2)>> ELSE <<>>)

MaxDataLen == 4

\* data values, in tenths
DataValues == Tenths({-15, 0, 72, 215})

SmoothDataValues == Tenths({0, 215})

SparklineRects ==
    {<<0, 0, 100, 40>>, <<10, 20, 114, 63>>, <<3, 3, 3, 3>>, <<0, 200, 240, 240>>}

SmoothRects == {<<0, 0, 100, 40>>, <<10, 20, 114, 63>>}

SparklineCalls ==
    {[kind |-> "draw_sparkline", rect |-> r, data |-> d,
      color |-> <<0, 255, 255>>, fill |-> f, smooth |-> s] :
        r \in SparklineRects,
        d \in UNION {[1..n -> DataValues] : n \in 0..MaxDataLen},
        f \in BOOLEAN,
        s \in {FALSE}}
    \cup
    {[kind |-> "draw_sparkline", rect |-> r, data |-> d,
      color |-> <<0, 255, 255>>, fill |-> f, smooth |-> s] :
        r \in SmoothRects,
        d \in UNION {[1..n -> SmoothDataValues] : n \in 0..MaxDataLen},
        f \in {TRUE},
        s \in {TRUE}}

\* Renderer.draw_sparkline(draw, rect, data, color, fill, smooth)
DrawSparkline ==
    /\ pc = "call"
    /\ call.kind = "draw_sparkline"
    /\ result' = draw_sparkline(call.rect,
                                [k \in 1..Len(call.data) |-> LitOf(call.data[k])],
                                call.color, call.fill, call.smooth)
    /\ pc' = "done"
    /\ UNCHANGED <<call, slots, home_assistant, heap, sensor>>

SparklineInit == InitWith(SparklineCalls)
SparklineSpec == SparklineInit /\ [][DrawSparkline]_vars

\* the data of a draw_sparkline call as floats
SparklineData == [k \in 1..Len(call.data) |-> LitOf(call.data[k])]

\* the points of the line drawn by draw_sparkline, which is drawn last
SparklineLinePoints == result[Len(result)].xy

\* C14: draw_sparkline draws nothing for empty or one-point data; with
\* exactly two points (smooth or not) and with smooth = False for any length,
\* the line drawn (and the outline of the filled area) consists of exactly the
\* raw control points, one per data value, which for two points is the
\* straight segment from the left edge to the right edge between the two
\* normalised values; only with smooth set and at least three points is the
\* line interpolated.
C14_SparklineRawPoints ==
    (Done /\ call.kind = "draw_sparkline") =>
        LET n  == Len(call.data)
            x1 == FromInt(call.rect[1])
            y1 == FromInt(call.rect[2])
            x2 == FromInt(call.rect[3])
            y2 == FromInt(call.rect[4])
        IN  /\ n < 2 => result = <<>>
            /\ (n = 2 \/ (n > 2 /\ ~call.smooth)) =>
                  /\ Len(result) = IF call.fill THEN 2 ELSE 1
                  /\ result[Len(result)].op = "line"
                  /\ SparklineLinePoints = control_points(call.rect, SparklineData)
                  /\ Len(SparklineLinePoints) = n
                  /\ call.fill =>
                        /\ result[1].op = "polygon"
                        /\ result[1].xy = <<(<<x1, y2>>)>> \o SparklineLinePoints
                                             \o <<(<<x2, y2>>)>>
            /\ n = 2 =>
                  LET a == call.data[1].num
                      b == call.data[2].num
                  IN  SparklineLinePoints =
                        <<(<<x1, IF a > b THEN y1 ELSE y2>>),
                          (<<x2, IF b > a THEN y1 ELSE y2>>)>>
            /\ (n > 2 /\ call.smooth) =>
                  /\ result[Len(result)].op = "line"
                  /\ Len(SparklineLinePoints) > n

\* two data values with smooth set: the line is the segment between the two
\* control points
C14_Witness ==
    /\ Done
    /\ call.kind = "draw_sparkline"
    /\ call.smooth
    /\ call.rect = <<10, 20, 114, 63>>
    /\ call.data = <<[num |-> 0, den |-> 10], [num |-> 215, den |-> 10]>>
    /\ SparklineLinePoints = <<(<<FromInt(10), FromInt(63)>>),
                               (<<FromInt(114), FromInt(20)>>)>>

\* C15: with smooth set and n >= 3 data values the interpolated line has
\* exactly max(50, width // 2) points, width = x2 - x1.
C15_SplinePointCount ==
    (Done /\ call.kind = "draw_sparkline" /\ call.smooth /\ Len(call.data) >= 3) =>
        Len(SparklineLinePoints) = Max(50, (call.rect[3] - call.rect[1]) \div 2)

\* C16: every control point of draw_sparkline lies inside the bounding box,
\* the first at x1 and the last at x2, the k-th of n at x1 + (k-1)/(n-1) of
\* the width and at y2 - (value - min)/(max - min) of the height; when all
\* values are equal every control point has y = y2, the bottom edge.
\* (Checked where the line drawn consists of the control points.)
C16_ControlPointsInBox ==
    (Done /\ call.kind = "draw_sparkline" /\ Len(call.data) >= 2
       /\ (Len(call.data) = 2 \/ ~call.smooth)) =>
        LET n  == Len(call.data)
            x1 == call.rect[1]
            y1 == call.rect[2]
            x2 == call.rect[3]
            y2 == call.rect[4]
            mn == CHOOSE v \in {call.data[k].num : k \in 1..n} :
                      \A k \in 1..n : v <= call.data[k].num
            mx == CHOOSE v \in {call.data[k].num : k \in 1..n} :
                      \A k \in 1..n : v >= call.data[k].num
            pt == SparklineLinePoints
        IN  /\ Len(pt) = n
            /\ pt[1][1] = FromInt(x1)
            /\ pt[n][1] = FromInt(x2)
            /\ \A k \in 1..n :
                  /\ FCmp(FromInt(x1), pt[k][1]) <= 0
                  /\ FCmp(pt[k][1], FromInt(x2)) <= 0
                  /\ FCmp(FromInt(y1), pt[k][2]) <= 0
                  /\ FCmp(pt[k][2], FromInt(y2)) <= 0
                  /\ FNear(pt[k][1], x1 * (n - 1) + (k - 1) * (x2 - x1), n - 1)
                  /\ mx # mn =>
                        FNear(pt[k][2],
                              y2 * (mx - mn) - (call.data[k].num - mn) * (y2 - y1),
                              mx - mn)
                  /\ mx = mn => pt[k][2] = FromInt(y2)

\* three equal values in a box 40 high: the line runs along the bottom edge
C16_Witness ==
    /\ Done
    /\ call.kind = "draw_sparkline"
    /\ ~call.smooth
    /\ call.rect = <<0, 0, 100, 40>>
    /\ call.data = [k \in 1..3 |-> [num |-> 72, den |-> 10]]
    /\ SparklineLinePoints = <<(<<FromInt(0), FromInt(40)>>),
                               (<<FromInt(50), FromInt(40)>>),
                               (<<FromInt(100), FromInt(40)>>)>>

dim_color(color, factor) ==
    <<Trunc(FMul(FromInt(color[1]), factor)),
      Trunc(FMul(FromInt(color[2]), factor)),
      Trunc(FMul(FromInt(color[3]), factor))>>

blend_color(color1, color2, factor) ==
    [i \in 1..3 |->
        Trunc(FAdd(FromInt(color1[i]),
                   FMul(FromInt(color2[i] - color1[i]), factor)))]

Colors ==
    {<<0, 0, 0>>, <<255, 255, 255>>, <<0, 255, 255>>, <<100, 100, 100>>,
     <<255, 128, 0>>, <<10, 29, 200>>}

Factors ==
    Tenths({-5, 0, 3, 5, 7, 10, 15}) \cup Hundredths({-1, 1, 29, 99, 101})

DimCalls ==
    {[kind |-> "dim_color", color |-> c, factor |-> f] :
        c \in Colors, f \in Factors}

BlendCalls ==
    {[kind |-> "blend_color", color1 |-> c1, color2 |-> c2, factor |-> f] :
        c1 \in Colors, c2 \in Colors, f \in Factors}

\* Renderer.dim_color(color, factor)
DimColor ==
    /\ pc = "call"
    /\ call.kind = "dim_color"
    /\ result' = dim_color(call.color, LitOf(call.factor))
    /\ pc' = "done"
    /\ UNCHANGED <<call, slots, home_assistant, heap, sensor>>

\* Renderer.blend_color(color1, color2, factor)
BlendColor ==
    /\ pc = "call"
    /\ call.kind = "blend_color"
    /\ result' = blend_color(call.color1, call.color2, LitOf(call.factor))
    /\ pc' = "done"
    /\ UNCHANGED <<call, slots, home_assistant, heap, sensor>>

ColorInit == InitWith(DimCalls \cup BlendCalls)
ColorNext ==
    \/ DimColor
    \/ BlendColor
ColorSpec == ColorInit /\ [][ColorNext]_vars

\* C17: dim_color and blend_color return three channels in 0..255 for every
\* colour and every factor, also below 0 and above 1; each channel of
\* dim_color is the channel times the factor and each channel of blend_color
\* is color1 + (color2 - color1) * factor, cut to an integer (at most one off
\* the exact value), so that factor 0 gives color1 and factor 1 gives color2.
C17_ColorChannels ==
    (Done /\ call.kind \in {"dim_color", "blend_color"}) =>
        LET num == call.factor.num
            den == call.factor.den
        IN  /\ Len(result) = 3
            /\ \A i \in 1..3 : result[i] \in 0..255
            /\ call.kind = "dim_color" =>
                  \A i \in 1..3 :
                      /\ den * result[i] - call.color[i] * num <= den
                      /\ call.color[i] * num - den * result[i] <= den
            /\ call.kind = "blend_color" =>
                  /\ \A i \in 1..3 :
                        LET exact == call.color1[i] * den
                                       + (call.color2[i] - call.color1[i]) * num
                        IN  /\ den * result[i] - exact <= den
                            /\ exact - den * result[i] <= den
                  /\ num = 0 => result = call.color1
                  /\ num = den => result = call.color2

(***************************************************************************)
(* Widgets (widgets/base.py, widgets/entity.py, widgets/media.py).         *)
(* render leaves in `result` the sequence of operations performed on the   *)
(* ImageDraw object.  A WidgetConfig is a record of its fields entity_id,  *)
(* label and color (each None or a value); the options read by the         *)
(* constructor are arguments of the call.  A HomeAssistant object is a     *)
(* record holding `states`, a function from entity ids to State objects.   *)
(* The colour constants of const.py and the fonts of the renderer are      *)
(* never inspected by the widgets and are known by name only.              *)
(***************************************************************************)
COLOR_CYAN == [const |-> "COLOR_CYAN"]
COLOR_GRAY == [const |-> "COLOR_GRAY"]
COLOR_WHITE == [const |-> "COLOR_WHITE"]

\* a configured colour (r, g, b)
RGB(r, g, b) == [r |-> r, g |-> g, b |-> b]

HomeAssistant(states) == [type |-> "HomeAssistant", states |-> states]

\* draw.text(xy, text, font=font, fill=fill, anchor=anchor)
Text(xy, text, font, fill, anchor) ==
    [op |-> "text", xy |-> xy, text |-> text, font |-> font, fill |-> fill,
     anchor |-> anchor]

\* Renderer.draw_text(draw, text, position, font, color, anchor)
draw_text(text, position, font, color, anchor) ==
    <<Text(position, text, font, color, anchor)>>

\* Renderer.draw_rect(draw, rect, fill)
draw_rect(rect, fill) == <<Rectangle(rect, fill)>>

\* Widget.get_entity_state(hass)
get_entity_state(config, hass) ==
    IF hass = None THEN None
    ELSE IF config.entity_id = None THEN None
    ELSE Get(hass.states, config.entity_id.chars, None)

\* a or b
Or(a, b) == IF Truthy(a) THEN a ELSE b

friendly_name == <<"f", "r", "i", "e", "n", "d", "l", "y", "_", "n", "a", "m", "e">>

unit_of_measurement == <<"u", "n", "i", "t", "_", "o", "f", "_", "m", "e", "a", "s", "u", "r", "e", "m", "e", "n", "t">>

\* EntityWidget.render using the entity id although a label is configured
entity_render_ignoring_label(config, show_name, show_unit, rect, hass) ==
    LET x1 == rect[1]
        y1 == rect[2]
        x2 == rect[3]
        y2 == rect[4]
        width == x2 - x1
        height == y2 - y1
        center_x == x1 + width \div 2
        center_y == y1 + height \div 2
        state == get_entity_state(config, hass)
        value == IF state = None THEN <<"-", "-">> ELSE state.state
        unit == IF state = None THEN Str(<<>>)
                ELSE IF show_unit
                     THEN Get(state.attributes, unit_of_measurement, Str(<<>>))
                     ELSE Str(<<>>)
        name0 == IF state = None
                 THEN Or(config.entity_id, Str(<<"U", "n", "k", "n", "o", "w", "n">>)).chars
                 ELSE Get(state.attributes, friendly_name,
                          Str(state.entity_id)).chars
        max_name_len == width \div 8
        name == IF Len(name0) > max_name_len
                THEN PyPrefix(name0, max_name_len - 2) \o <<".", ".">>
                ELSE name0
        value_y == IF ~show_name THEN center_y ELSE center_y - 5
        name_y == center_y + 25
        color == IF config.color # None THEN config.color ELSE COLOR_CYAN
        value_text == IF Truthy(unit) THEN value \o unit.chars ELSE value
    IN  draw_text(value_text, <<center_x, value_y>>, "font_large", color, "mm")
          \o (IF show_name
              THEN draw_text(upper(name), <<center_x, name_y>>, "font_small",
                             COLOR_GRAY, "mm")
              ELSE <<>>)

\* EntityWidget(config).render(renderer, draw, rect, hass), with the options
\* show_name and show_unit of the configuration
entity_render(config, show_name, show_unit, rect, hass) ==
    LET x1 == rect[1]
        y1 == rect[2]
        x2 == rect[3]
        y2 == rect[4]
        width == x2 - x1
        height == y2 - y1
        center_x == x1 + width \div 2
        center_y == y1 + height \div 2
        state == get_entity_state(config, hass)
        value == IF state = None THEN <<"-", "-">> ELSE state.state
        unit == IF state = None THEN Str(<<>>)
                ELSE IF show_unit
                     THEN Get(state.attributes, unit_of_measurement, Str(<<>>))
                     ELSE Str(<<>>)
        name0 == IF state = None
                 THEN Or(config.label, Or(config.entity_id, Str(<<"U", "n", "k", "n", "o", "w", "n">>))).chars
                 ELSE Or(config.label,
                         Get(state.attributes, friendly_name,
                             Str(state.entity_id))).chars
        max_name_len == width \div 8
        name == IF Len(name0) > max_name_len
                THEN PyPrefix(name0, max_name_len - 2) \o <<".", ".">>
                ELSE name0
        value_y == IF ~show_name THEN center_y ELSE center_y - 5
        name_y == center_y + 25
        color == IF config.color # None THEN config.color ELSE COLOR_CYAN
        value_text == IF Truthy(unit) THEN value \o unit.chars ELSE value
    IN  draw_text(value_text, <<center_x, value_y>>, "font_large", color, "mm")
          \o (IF show_name
              THEN draw_text(upper(name), <<center_x, name_y>>, "font_small",
                             COLOR_GRAY, "mm")
              ELSE <<>>)

WidgetConfig(entity_id, label, color) ==
    [entity_id |-> entity_id, label |-> label, color |-> color]

sensor_temp == <<"s", "e", "n", "s", "o", "r", ".", "t", "e", "m", "p">>

sensor_outdoor_humidity == <<"s", "e", "n", "s", "o", "r", ".", "o", "u", "t", "d", "o", "o", "r", "_", "h", "u", "m", "i", "d", "i", "t", "y">>

\* the states of a Home Assistant instance: sensor.temp with and without a
\* friendly name and a unit, sensor.outdoor_humidity with a long name
EntityStates ==
    {[e \in {sensor_temp} |-> State(sensor_temp, <<"2", "1", ".", "5">>, a)] :
        a \in {<<>>,
               [k \in {friendly_name} |-> Str(<<"T", "e", "m", "p">>)],
               [k \in {friendly_name} |-> Str(<<>>)],
               [k \in {unit_of_measurement} |-> Str(<<"C">>)],
               [k \in {friendly_name, unit_of_measurement} |->
                   IF k = friendly_name THEN Str(<<"L", "i", "v", "i", "n", "g", " ", "R", "o", "o", "m", " ", "T", "e", "m", "p", "e", "r", "a", "t", "u", "r", "e">>)
                   ELSE Str(<<"C">>)]}}
    \cup
    {[e \in {sensor_outdoor_humidity} |->
        State(sensor_outdoor_humidity, <<"u", "n", "a", "v", "a", "i", "l", "a", "b", "l", "e">>, <<>>)]}

EntityWidths == {0, 12, 16, 60, 100, 120, 240}

EntityRenderCalls ==
    {[kind |-> "entity_render", config |-> WidgetConfig(e, l, c),
      show_name |-> sn, show_unit |-> su, rect |-> <<8, 8, 8 + w, 120>>,
      hass |-> h] :
        e \in {None, Str(<<>>), Str(sensor_temp), Str(sensor_outdoor_humidity)},
        l \in {None, Str(<<>>), Str(<<"B", "e", "d", "r", "o", "o", "m">>)},
        c \in {None, RGB(255, 0, 0)},
        sn \in BOOLEAN,
        su \in BOOLEAN,
        w \in EntityWidths,
        h \in {None} \cup {HomeAssistant(s) : s \in EntityStates}}

\* EntityWidget.render(renderer, draw, rect, hass)
EntityRender ==
    /\ pc = "call"
    /\ call.kind = "entity_render"
    /\ result' = entity_render(call.config, call.show_name, call.show_unit,
                               call.rect, call.hass)
    /\ pc' = "done"
    /\ UNCHANGED <<call, slots, home_assistant, heap, sensor>>

EntityInit == InitWith(EntityRenderCalls)
EntitySpec == EntityInit /\ [][EntityRender]_vars

\* the text is the upper-cased name, or an upper-cased prefix of the name
\* followed by ".."
DrawnNameOf(text, name) ==
    \/ text = upper(name)
    \/ \E k \in 0..Len(name) : text = upper(SubSeq(name, 1, k)) \o <<".", ".">>

\* the widget of the call is bound to an entity that hass knows
EntityFound ==
    /\ call.hass # None
    /\ call.config.entity_id # None
    /\ call.config.entity_id.chars \in DOMAIN call.hass.states

\* the state of that entity
FoundState == call.hass.states[call.config.entity_id.chars]

\* the name an entity widget shows: the label if one is configured; else,
\* for an entity that is found, its friendly_name or else its entity id, and
\* for one that is not, the configured entity id or else "Unknown"
EntityName ==
    LET cfg == call.config
    IN  IF cfg.label # None /\ cfg.label.chars # <<>> THEN cfg.label.chars
        ELSE IF ~EntityFound
             THEN IF cfg.entity_id # None /\ cfg.entity_id.chars # <<>>
                  THEN cfg.entity_id.chars
                  ELSE <<"U", "n", "k", "n", "o", "w", "n">>
        ELSE IF friendly_name \in DOMAIN FoundState.attributes
             THEN FoundState.attributes[friendly_name].chars
             ELSE FoundState.entity_id

\* C18: EntityWidget.render always completes.  Without hass, without an
\* entity id, or when the entity is not found, the value drawn is "--" without
\* a unit and the name is the configured label, else the raw entity id, else
\* "Unknown"; when the entity exists the value is its state and the name is
\* the label, else its friendly_name, else its entity id.  (The name is drawn
\* when show_name is set, in upper case and shortened to the width.)
C18_EntityPlaceholder ==
    (Done /\ call.kind = "entity_render") =>
        /\ Len(result) = IF call.show_name THEN 2 ELSE 1
        /\ \A k \in 1..Len(result) : result[k].op = "text"
        /\ ~EntityFound => result[1].text = <<"-", "-">>
        /\ EntityFound =>
              result[1].text =
                  IF /\ call.show_unit
                     /\ unit_of_measurement \in DOMAIN FoundState.attributes
                  THEN FoundState.state
                         \o FoundState.attributes[unit_of_measurement].chars
                  ELSE FoundState.state
        /\ call.show_name => DrawnNameOf(result[2].text, EntityName)
        /\ (call.show_name
              /\ Len(EntityName) <= (call.rect[3] - call.rect[1]) \div 8)
                => result[2].text = upper(EntityName)

\* hass knows sensor.temp only, the widget is bound to sensor.outdoor_humidity
\* without a label: "--" and the entity id are drawn
C18_Witness ==
    /\ Done
    /\ call.kind = "entity_render"
    /\ call.hass # None
    /\ call.config.entity_id = Str(sensor_outdoor_humidity)
    /\ sensor_outdoor_humidity \notin DOMAIN call.hass.states
    /\ call.config.label = None
    /\ call.show_name
    /\ call.rect = <<8, 8, 248, 120>>
    /\ result[1].text = <<"-", "-">>
    /\ result[2].text = <<"S", "E", "N", "S", "O", "R", ".", "O", "U", "T", "D", "O", "O", "R", "_", "H", "U", "M", "I", "D", "I", "T", "Y">>

RECURSIVE DecimalChars(_)
\* str(n) for n >= 0
DecimalChars(n) ==
    IF n < 10 THEN <<Digits[n + 1]>>
    ELSE DecimalChars(n \div 10) \o <<Digits[(n % 10) + 1]>>

\* f"{n}"
IntStr(n) == IF n < 0 THEN <<"-">> \o DecimalChars(-n) ELSE DecimalChars(n)

\* f"{n:02d}" for n >= 0
IntStr02(n) == IF n < 10 THEN <<"0">> \o DecimalChars(n) ELSE DecimalChars(n)

\* the float of an int or float attribute value
NumberOf(x) ==
    IF x.type = "float" THEN x.value ELSE FRound(x.s, x.m, 0, FALSE)

\* MediaWidget._format_time(seconds)
format_time(number) ==
    LET seconds == Trunc(NumberOf(number))
    IN  IF seconds >= 3600
        THEN IntStr(seconds \div 3600) \o <<":">>
               \o IntStr02((seconds % 3600) \div 60) \o <<":">>
               \o IntStr02(seconds % 60)
        ELSE IntStr(seconds \div 60) \o <<":">> \o IntStr02(seconds % 60)

\* MediaWidget._render_idle(renderer, draw, rect)
render_idle(rect) ==
    LET x1 == rect[1]
        y1 == rect[2]
        x2 == rect[3]
        y2 == rect[4]
        center_x == x1 + (x2 - x1) \div 2
        center_y == y1 + (y2 - y1) \div 2
        bar_width == 8
        bar_height == 30
        gap == 10
        left_bar == <<center_x - gap - bar_width, center_y - bar_height \div 2,
                      center_x - gap, center_y + bar_height \div 2>>
        right_bar == <<center_x + gap, center_y - bar_height \div 2,
                       center_x + gap + bar_width, center_y + bar_height \div 2>>
    IN  draw_rect(left_bar, COLOR_GRAY)
          \o draw_rect(right_bar, COLOR_GRAY)
          \o draw_text(<<"P", "A", "U", "S", "E", "D">>, <<center_x, center_y + 35>>, "font_small",
                       COLOR_GRAY, "mm")

media_title == <<"m", "e", "d", "i", "a", "_", "t", "i", "t", "l", "e">>

media_artist == <<"m", "e", "d", "i", "a", "_", "a", "r", "t", "i", "s", "t">>

media_album_name == <<"m", "e", "d", "i", "a", "_", "a", "l", "b", "u", "m", "_", "n", "a", "m", "e">>

media_position == <<"m", "e", "d", "i", "a", "_", "p", "o", "s", "i", "t", "i", "o", "n">>

media_duration == <<"m", "e", "d", "i", "a", "_", "d", "u", "r", "a", "t", "i", "o", "n">>

IdleStates == {<<"o", "f", "f">>, <<"u", "n", "a", "v", "a", "i", "l", "a", "b", "l", "e">>, <<"u", "n", "k", "n", "o", "w", "n">>, <<"i", "d", "l", "e">>}

\* MediaWidget.render with percent position / duration * 100 unclamped and
\* the idle path for an absent state only
media_render_unclamped(config, show_artist, show_album, show_progress, rect, hass) ==
    LET x1 == rect[1]
        y1 == rect[2]
        x2 == rect[3]
        y2 == rect[4]
        width == x2 - x1
        center_x == x1 + width \div 2
        padding == 10
        state == get_entity_state(config, hass)
    IN  IF state = None
        THEN render_idle(rect)
        ELSE
        LET attrs == state.attributes
            title0 == Get(attrs, media_title, Str(<<"U", "n", "k", "n", "o", "w", "n">>)).chars
            artist0 == Get(attrs, media_artist, Str(<<>>)).chars
            album0 == Get(attrs, media_album_name, Str(<<>>)).chars
            position == Get(attrs, media_position, PyInt(0))
            duration == Get(attrs, media_duration, PyInt(0))
            max_chars == (width - padding * 2) \div 8
            title == IF Len(title0) > max_chars
                     THEN PyPrefix(title0, max_chars - 2) \o <<".", ".">>
                     ELSE title0
            artist == IF Len(artist0) > max_chars
                      THEN PyPrefix(artist0, max_chars - 2) \o <<".", ".">>
                      ELSE artist0
            album == IF Len(album0) > max_chars
                     THEN PyPrefix(album0, max_chars - 2) \o <<".", ".">>
                     ELSE album0
            artist_drawn == show_artist /\ artist # <<>>
            album_drawn == show_album /\ album0 # <<>>
            bar_y == y2 - 25
            bar_rect == <<x1 + padding, bar_y, x2 - padding, bar_y + 6>>
            progress == FMul(FDiv(NumberOf(position), NumberOf(duration)),
                             FromInt(100))
            time_y == bar_y + 15
        IN  draw_text(<<"N", "O", "W", " ", "P", "L", "A", "Y", "I", "N", "G">>, <<center_x, y1 + 15>>, "font_small",
                      COLOR_GRAY, "mm")
              \o draw_text(title, <<center_x, y1 + 40>>, "font_regular",
                           COLOR_WHITE, "mm")
              \o (IF artist_drawn
                  THEN draw_text(artist, <<center_x, y1 + 60>>, "font_small",
                                 COLOR_GRAY, "mm")
                  ELSE <<>>)
              \o (IF album_drawn
                  THEN draw_text(album,
                                 <<center_x,
                                   y1 + 60 + (IF artist_drawn THEN 18 ELSE 0)>>,
                                 "font_small", COLOR_GRAY, "mm")
                  ELSE <<>>)
              \o (IF show_progress /\ FCmp(NumberOf(duration), FZero) > 0
                  THEN draw_bar(bar_rect, progress,
                                IF config.color # None THEN config.color
                                ELSE COLOR_CYAN,
                                COLOR_GRAY)
                         \o draw_text(format_time(position),
                                      <<x1 + padding, time_y>>, "font_small",
                                      COLOR_GRAY, "lm")
                         \o draw_text(format_time(duration),
                                      <<x2 - padding, time_y>>, "font_small",
                                      COLOR_GRAY, "rm")
                  ELSE <<>>)

\* MediaWidget(config).render(renderer, draw, rect, hass), with the options
\* show_artist, show_album and show_progress of the configuration
media_render(config, show_artist, show_album, show_progress, rect, hass) ==
    LET x1 == rect[1]
        y1 == rect[2]
        x2 == rect[3]
        y2 == rect[4]
        width == x2 - x1
        center_x == x1 + width \div 2
        padding == 10
        state == get_entity_state(config, hass)
    IN  IF state = None \/ state.state \in IdleStates
        THEN render_idle(rect)
        ELSE
        LET attrs == state.attributes
            title0 == Get(attrs, media_title, Str(<<"U", "n", "k", "n", "o", "w", "n">>)).chars
            artist0 == Get(attrs, media_artist, Str(<<>>)).chars
            album0 == Get(attrs, media_album_name, Str(<<>>)).chars
            position == Get(attrs, media_position, PyInt(0))
            duration == Get(attrs, media_duration, PyInt(0))
            max_chars == (width - padding * 2) \div 8
            title == IF Len(title0) > max_chars
                     THEN PyPrefix(title0, max_chars - 2) \o <<".", ".">>
                     ELSE title0
            artist == IF Len(artist0) > max_chars
                      THEN PyPrefix(artist0, max_chars - 2) \o <<".", ".">>
                      ELSE artist0
            album == IF Len(album0) > max_chars
                     THEN PyPrefix(album0, max_chars - 2) \o <<".", ".">>
                     ELSE album0
            artist_drawn == show_artist /\ artist # <<>>
            album_drawn == show_album /\ album0 # <<>>
            bar_y == y2 - 25
            bar_rect == <<x1 + padding, bar_y, x2 - padding, bar_y + 6>>
            progress == PyMin(FromInt(100),
                              FMul(FDiv(NumberOf(position), NumberOf(duration)),
                                   FromInt(100)))
            time_y == bar_y + 15
        IN  draw_text(<<"N", "O", "W", " ", "P", "L", "A", "Y", "I", "N", "G">>, <<center_x, y1 + 15>>, "font_small",
                      COLOR_GRAY, "mm")
              \o draw_text(title, <<center_x, y1 + 40>>, "font_regular",
                           COLOR_WHITE, "mm")
              \o (IF artist_drawn
                  THEN draw_text(artist, <<center_x, y1 + 60>>, "font_small",
                                 COLOR_GRAY, "mm")
                  ELSE <<>>)
              \o (IF album_drawn
                  THEN draw_text(album,
                                 <<center_x,
                                   y1 + 60 + (IF artist_drawn THEN 18 ELSE 0)>>,
                                 "font_small", COLOR_GRAY, "mm")
                  ELSE <<>>)
              \o (IF show_progress /\ FCmp(NumberOf(duration), FZero) > 0
                  THEN draw_bar(bar_rect, progress,
                                IF config.color # None THEN config.color
                                ELSE COLOR_CYAN,
                                COLOR_GRAY)
                         \o draw_text(format_time(position),
                                      <<x1 + padding, time_y>>, "font_small",
                                      COLOR_GRAY, "lm")
                         \o draw_text(format_time(duration),
                                      <<x2 - padding, time_y>>, "font_small",
                                      COLOR_GRAY, "rm")
                  ELSE <<>>)

media_player == <<"m", "e", "d", "i", "a", "_", "p", "l", "a", "y", "e", "r", ".", "l", "i", "v", "i", "n", "g", "_", "r", "o", "o", "m">>

MediaStateStrings ==
    {<<"p", "l", "a", "y", "i", "n", "g">>, <<"p", "a", "u", "s", "e", "d">>, <<"o", "f", "f">>, <<"u", "n", "a", "v", "a", "i", "l", "a", "b", "l", "e">>, <<"u", "n", "k", "n", "o", "w", "n">>, <<"i", "d", "l", "e">>,
     <<"O", "F", "F">>, <<"I", "d", "l", "e">>, <<"o", "n">>, <<"s", "t", "a", "n", "d", "b", "y">>, <<"b", "u", "f", "f", "e", "r", "i", "n", "g">>, <<>>}

\* attribute dictionaries with the given keys present
MediaAttributes(titles, artists, albums, positions, durations) ==
    {[k \in {media_title, media_artist, media_album_name, media_position,
             media_duration} \cap K |->
         IF k = media_title THEN Str(t)
         ELSE IF k = media_artist THEN Str(ar)
         ELSE IF k = media_album_name THEN Str(al)
         ELSE IF k = media_position THEN p
         ELSE d] :
        K \in {{media_title, media_artist, media_album_name, media_position,
                media_duration},
               {media_title, media_position, media_duration},
               {media_title, media_artist, media_duration},
               {media_artist, media_album_name, media_position},
               {}},
        t \in titles, ar \in artists, al \in albums, p \in positions,
        d \in durations}

MediaWidths == {240, 120, 44, 36, 30, 12}

MediaRenderCalls ==
    \* every state string, with and without hass and entity
    {[kind |-> "media_render", config |-> WidgetConfig(e, None, None),
      show_artist |-> TRUE, show_album |-> FALSE, show_progress |-> TRUE,
      rect |-> <<0, 0, 240, 240>>, hass |-> h] :
        e \in {None, Str(media_player), Str(sensor_temp)},
        h \in {None}
              \cup {HomeAssistant([i \in {media_player} |->
                                      State(media_player, s, a)]) :
                        s \in MediaStateStrings,
                        a \in MediaAttributes({<<"S", "o", "n", "g">>}, {<<"B", "a", "n", "d">>}, {<<"A", "l", "b", "u", "m">>},
                                              {PyInt(30)}, {PyInt(180)})}}
    \cup
    \* a found, playing entity
    {[kind |-> "media_render",
      config |-> WidgetConfig(Str(media_player), None, c),
      show_artist |-> sa, show_album |-> sl, show_progress |-> sp,
      rect |-> <<8, 8, 8 + w, 120>>,
      hass |-> HomeAssistant([i \in {media_player} |->
                                 State(media_player, <<"p", "l", "a", "y", "i", "n", "g">>, a)])] :
        c \in {None, RGB(255, 0, 0)},
        sa \in BOOLEAN, sl \in BOOLEAN, sp \in BOOLEAN,
        w \in MediaWidths,
        a \in MediaAttributes({<<"S", "o", "n", "g">>, <<"B", "o", "h", "e", "m", "i", "a", "n", " ", "R", "h", "a", "p", "s", "o", "d", "y", " ", "(", "R", "e", "m", "a", "s", "t", "e", "r", "e", "d", ")">>},
                              {<<>>, <<"Q", "u", "e", "e", "n", " ", "a", "n", "d", " ", "f", "r", "i", "e", "n", "d", "s">>},
                              {<<"A", " ", "N", "i", "g", "h", "t", " ", "a", "t", " ", "t", "h", "e", " ", "O", "p", "e", "r", "a">>},
                              {PyInt(0), PyInt(59), Float(Lit(1805, 10)),
                               PyInt(4000)},
                              {PyInt(0), PyInt(-1), PyInt(180),
                               Float(Lit(36615, 10))})}

\* MediaWidget.render(renderer, draw, rect, hass)
MediaRender ==
    /\ pc = "call"
    /\ call.kind = "media_render"
    /\ result' = media_render(call.config, call.show_artist, call.show_album,
                              call.show_progress, call.rect, call.hass)
    /\ pc' = "done"
    /\ UNCHANGED <<call, slots, home_assistant, heap, sensor>>

MediaInit == InitWith(MediaRenderCalls)
MediaSpec == MediaInit /\ [][MediaRender]_vars

WidgetInit == InitWith(EntityRenderCalls \cup MediaRenderCalls)
WidgetNext ==
    \/ EntityRender
    \/ MediaRender
WidgetSpec == WidgetInit /\ [][WidgetNext]_vars

\* the media widget of the call takes the idle path, by the state of its
\* entity
MediaIdle ==
    \/ ~EntityFound
    \/ FoundState.state \in {<<"o", "f", "f">>, <<"u", "n", "a", "v", "a", "i", "l", "a", "b", "l", "e">>, <<"u", "n", "k", "n", "o", "w", "n">>, <<"i", "d", "l", "e">>}

\* the centred texts of the now-playing view below its heading: the title,
\* then the artist and the album where drawn
MediaLabels ==
    SelectSeq(SubSeq(result, 2, Len(result)),
              LAMBDA o : o.op = "text" /\ o.anchor = "mm")

\* C19: the name label EntityWidget draws has at most width // 8 characters
\* for every rectangle width and every name, and a name not longer than that
\* is drawn unchanged (in upper case); the title, artist and album MediaWidget
\* draws have at most (width - 20) // 8 characters, and a title not longer
\* than that is drawn unchanged.
C19_LabelsFit ==
    /\ (Done /\ call.kind = "entity_render" /\ call.show_name) =>
          LET budget == (call.rect[3] - call.rect[1]) \div 8
          IN  /\ Len(result[2].text) <= budget
              /\ Len(EntityName) <= budget => result[2].text = upper(EntityName)
    /\ (Done /\ call.kind = "media_render" /\ ~MediaIdle) =>
          LET budget == (call.rect[3] - call.rect[1] - 20) \div 8
              title == Get(FoundState.attributes, media_title,
                           Str(<<"U", "n", "k", "n", "o", "w", "n">>)).chars
          IN  /\ Len(MediaLabels) >= 1
              /\ \A k \in 1..Len(MediaLabels) : Len(MediaLabels[k].text) <= budget
              /\ Len(title) <= budget => MediaLabels[1].text = title

\* the drawing operations of the progress bar: the rectangles of the
\* now-playing view
MediaBar == SelectSeq(result, LAMBDA o : o.op = "rectangle")

\* C20: MediaWidget.render takes the idle path - the two bars of the pause
\* glyph and the label "PAUSED", nothing else - exactly when the entity state
\* is missing or its state string is one of off, unavailable, unknown, idle.
\* For every other state it draws the now-playing view (heading and title);
\* there the progress bar is drawn exactly when show_progress is set and
\* duration > 0, filled to min(100, position / duration * 100) percent, and
\* the fill does not pass the right edge of the bar.
C20_MediaIdleOrPlaying ==
    (Done /\ call.kind = "media_render") =>
        LET x1 == call.rect[1]
            y1 == call.rect[2]
            x2 == call.rect[3]
            y2 == call.rect[4]
            cx == x1 + (x2 - x1) \div 2
            cy == y1 + (y2 - y1) \div 2
        IN  /\ MediaIdle =>
                  /\ Len(result) = 3
                  /\ result[1] = Rectangle(<<cx - 18, cy - 15, cx - 10, cy + 15>>,
                                           COLOR_GRAY)
                  /\ result[2] = Rectangle(<<cx + 10, cy - 15, cx + 18, cy + 15>>,
                                           COLOR_GRAY)
                  /\ result[3].op = "text"
                  /\ result[3].text = <<"P", "A", "U", "S", "E", "D">>
            /\ ~MediaIdle =>
                  LET attrs == FoundState.attributes
                      position == NumberOf(Get(attrs, media_position, PyInt(0)))
                      duration == NumberOf(Get(attrs, media_duration, PyInt(0)))
                      percent == IF FCmp(position, duration) >= 0
                                 THEN FromInt(100)
                                 ELSE FMul(FDiv(position, duration), FromInt(100))
                      bar_rect == <<x1 + 10, y2 - 25, x2 - 10, y2 - 19>>
                      color == IF call.config.color # None
                               THEN call.config.color ELSE COLOR_CYAN
                  IN  /\ Len(result) >= 2
                      /\ result[1].op = "text"
                      /\ result[1].text = <<"N", "O", "W", " ", "P", "L", "A", "Y", "I", "N", "G">>
                      /\ result[2].op = "text"
                      /\ \A k \in 1..Len(result) :
                            result[k].op = "text" => result[k].text # <<"P", "A", "U", "S", "E", "D">>
                      /\ IF call.show_progress /\ FCmp(duration, FZero) > 0
                         THEN /\ MediaBar = draw_bar(bar_rect, percent, color,
                                                     COLOR_GRAY)
                              /\ Len(MediaBar) = 2 =>
                                    MediaBar[2].xy[3] <= x2 - 10
                         ELSE MediaBar = <<>>

\* an entity in state "unknown": the pause glyph and "PAUSED"
C20_Witness ==
    /\ Done
    /\ call.kind = "media_render"
    /\ EntityFound
    /\ FoundState.state = <<"u", "n", "k", "n", "o", "w", "n">>
    /\ call.rect = <<0, 0, 240, 240>>
    /\ Len(result) = 3
    /\ result[1].xy = <<102, 105, 110, 135>>
    /\ result[3].text = <<"P", "A", "U", "S", "E", "D">>

(***************************************************************************)
(* Renderer.draw_segmented_bar                                             *)
(***************************************************************************)
\* draw.rounded_rectangle(xy, radius=radius, fill=fill)
RoundedRectangle(xy, radius, fill) ==
    [op |-> "rounded_rectangle", xy |-> xy, radius |-> radius, fill |-> fill]

\* seg_width of one (percent, color) segment on a bar total_width wide
seg_width(total_width, segment) ==
    Trunc(FMul(FromInt(total_width), FDiv(LitOf(segment.percent), FromInt(100))))

\* the loop of draw_segmented_bar clamping no segment at x2
RECURSIVE draw_segments_unclamped(_, _, _)
draw_segments_unclamped(rect, segments, current_x) ==
    IF segments = <<>> THEN <<>>
    ELSE LET w == seg_width(rect[3] - rect[1], Head(segments))
         IN  IF w > 0 /\ current_x < rect[3]
             THEN <<Rectangle(<<current_x, rect[2], current_x + w, rect[4]>>,
                              Head(segments).color)>>
                    \o draw_segments_unclamped(rect, Tail(segments), current_x + w)
             ELSE draw_segments_unclamped(rect, Tail(segments), current_x)

\* the loop of draw_segmented_bar over the segments not yet drawn, with the
\* cursor at current_x
RECURSIVE draw_segments(_, _, _)
draw_segments(rect, segments, current_x) ==
    IF segments = <<>> THEN <<>>
    ELSE LET w == seg_width(rect[3] - rect[1], Head(segments))
         IN  IF w > 0 /\ current_x < rect[3]
             THEN <<Rectangle(<<current_x, rect[2],
                                Min(current_x + w, rect[3]), rect[4]>>,
                              Head(segments).color)>>
                    \o draw_segments(rect, Tail(segments), current_x + w)
             ELSE draw_segments(rect, Tail(segments), current_x)

\* Renderer.draw_segmented_bar(draw, rect, segments, background, radius)
draw_segmented_bar(rect, segments, background, radius) ==
    <<RoundedRectangle(rect, radius, background)>>
      \o draw_segments(rect, segments, rect[1])

MaxSegments == 3

\* segment percentages, in tenths: negative, zero, too small for one pixel,
\* ordinary, and large enough for a list to sum to more than 100
SegmentPercents == Tenths({-100, 0, 4, 333, 500, 1000})

SegmentColors == <<<<0, 255, 0>>, <<255, 255, 0>>, <<255, 0, 0>>, <<0, 255, 255>>>>

SegmentRects == {<<10, 5, 110, 11>>, <<0, 0, 7, 4>>, <<20, 8, 20, 16>>}

SegmentedBarCalls ==
    {[kind |-> "draw_segmented_bar", rect |-> r,
      segments |-> [k \in 1..Len(p) |->
                       [percent |-> p[k], color |-> SegmentColors[((k - 1) % 4) + 1]]],
      background |-> <<64, 64, 64>>, radius |-> 2] :
        r \in SegmentRects,
        p \in UNION {[1..n -> SegmentPercents] : n \in 0..MaxSegments}}

\* Renderer.draw_segmented_bar(draw, rect, segments, background, radius)
DrawSegmentedBar ==
    /\ pc = "call"
    /\ call.kind = "draw_segmented_bar"
    /\ result' = draw_segmented_bar(call.rect, call.segments, call.background,
                                    call.radius)
    /\ pc' = "done"
    /\ UNCHANGED <<call, slots, home_assistant, heap, sensor>>

SegmentedBarInit == InitWith(SegmentedBarCalls)
SegmentedBarSpec == SegmentedBarInit /\ [][DrawSegmentedBar]_vars

\* the indexes of the segments whose width in `widths` is positive, in order
WideSegments(widths) ==
    SelectSeq([k \in 1..Len(widths) |-> k], LAMBDA k : widths[k] > 0)

\* the sum of the widths of the first n segments of positive width
RECURSIVE WidthBefore(_, _, _)
WidthBefore(widths, wide, n) ==
    IF n = 0 THEN 0 ELSE WidthBefore(widths, wide, n - 1) + widths[wide[n]]

\* C23: draw_segmented_bar never draws outside its bounding box horizontally,
\* whatever the segments sum to: after the background it draws rectangles for
\* segments of positive computed width only, in list order, the first at x1
\* and each where the widths of the earlier ones end (segments of zero width
\* do not move the cursor), every rectangle starting below x2 and ending at
\* x2 at most.
C23_SegmentsInsideBox ==
    (Done /\ call.kind = "draw_segmented_bar") =>
        LET widths == [k \in 1..Len(call.segments) |->
                          seg_width(call.rect[3] - call.rect[1], call.segments[k])]
            wide   == WideSegments(widths)
            drawn  == Len(result) - 1
        IN  /\ result[1] = RoundedRectangle(call.rect, call.radius, call.background)
            /\ drawn <= Len(wide)
            /\ \A k \in 1..drawn :
                  /\ result[k + 1].op = "rectangle"
                  /\ result[k + 1].fill = call.segments[wide[k]].color
                  /\ result[k + 1].xy[1] = call.rect[1] + WidthBefore(widths, wide, k - 1)
                  /\ result[k + 1].xy[1] < call.rect[3]
                  /\ result[k + 1].xy[3] <= call.rect[3]
                  /\ result[k + 1].xy[3] > result[k + 1].xy[1]
                  /\ result[k + 1].xy[2] = call.rect[2]
                  /\ result[k + 1].xy[4] = call.rect[4]
                  /\ k > 1 => result[k + 1].xy[1] = result[k].xy[3]
            /\ drawn < Len(wide) =>
                  call.rect[1] + WidthBefore(widths, wide, drawn) >= call.rect[3]

\* percentages 50, 0 and 100 on a bar 100 wide: the second segment is skipped
\* and the third is cut off at x2
C23_Witness ==
    /\ Done
    /\ call.kind = "draw_segmented_bar"
    /\ call.rect = <<10, 5, 110, 11>>
    /\ Len(call.segments) = 3
    /\ call.segments[1].percent.num = 500
    /\ call.segments[2].percent.num = 0
    /\ call.segments[3].percent.num = 1000
    /\ result = <<RoundedRectangle(<<10, 5, 110, 11>>, 2, <<64, 64, 64>>),
                  Rectangle(<<10, 5, 60, 11>>, <<0, 255, 0>>),
                  Rectangle(<<60, 5, 110, 11>>, <<255, 0, 0>>)>>

(***************************************************************************)
(* HighQualityRenderer (scripts/generate_samples.py): the renderer drawing *)
(* on a canvas scale times as large, for the primitives whose base method  *)
(* is modelled above and for those that draw on the canvas directly.       *)
(***************************************************************************)
\* HighQualityRenderer._scale_point(point), _s(value) being int(value * scale)
scale_point(scale, point) == <<point[1] * scale, point[2] * scale>>

\* HighQualityRenderer._scale_rect(rect)
scale_rect(scale, rect) ==
    <<rect[1] * scale, rect[2] * scale, rect[3] * scale, rect[4] * scale>>

\* img.size of an image
Image(width, height) == [size |-> <<width, height>>]

\* HighQualityRenderer.create_canvas(): the image drawn on
create_canvas(scale) == Image(DisplayWidth * scale, DisplayHeight * scale)

\* HighQualityRenderer.downscale(img)
downscale(img) == Image(240, 240)

\* the operations on the canvas of the drawing method c.method of a
\* HighQualityRenderer(scale), called with the arguments in c
HighQualityRenderer(scale, c) ==
    CASE c.method = "draw_text" ->
            draw_text(c.text, scale_point(scale, c.position), c.font, c.color,
                      c.anchor)
      [] c.method = "draw_segmented_bar" ->
            draw_segmented_bar(scale_rect(scale, c.rect), c.segments,
                               c.background, c.radius * scale)
      [] c.method = "draw_sparkline" ->
            draw_sparkline(scale_rect(scale, c.rect),
                           [k \in 1..Len(c.data) |-> LitOf(c.data[k])],
                           c.color, c.fill, c.smooth)
      [] c.method = "draw_bar" ->
            draw_bar(scale_rect(scale, c.rect), LitOf(c.percent), c.color,
                     c.background)
      [] c.method = "draw_rectangle" ->
            <<Rectangle(scale_rect(scale, c.rect), c.fill)>>
      [] c.method = "draw_line" ->
            <<Line([k \in 1..Len(c.xy) |->
                       <<FromInt(scale_point(scale, c.xy[k])[1]),
                         FromInt(scale_point(scale, c.xy[k])[2])>>],
                   c.fill, c.width * scale)>>

Scales == {1, 2, 3}

\* calls of drawing methods at nominal resolution
DrawingCalls ==
    {[method |-> "draw_text", text |-> t, position |-> p, font |-> "font_small",
      color |-> <<255, 255, 255>>, anchor |-> "mm"] :
        t \in {<<"S", "Y", "S", "T", "E", "M">>, <<"4", "2", "%">>}, p \in {<<120, 12>>, <<0, 0>>, <<7, 233>>}}
    \cup
    {[method |-> "draw_segmented_bar", rect |-> r,
      segments |-> [k \in 1..Len(p) |->
                       [percent |-> p[k], color |-> SegmentColors[k]]],
      background |-> <<64, 64, 64>>, radius |-> 2] :
        r \in {<<10, 5, 110, 11>>, <<0, 0, 7, 4>>},
        p \in {<<[num |-> 500, den |-> 10], [num |-> 0, den |-> 10],
                 [num |-> 1000, den |-> 10]>>,
               <<[num |-> 333, den |-> 10], [num |-> 333, den |-> 10]>>, <<>>}}
    \cup
    {[method |-> "draw_sparkline", rect |-> r, data |-> d,
      color |-> <<0, 255, 255>>, fill |-> f, smooth |-> FALSE] :
        r \in {<<0, 0, 100, 40>>, <<10, 20, 15, 63>>},
        d \in {<<[num |-> 0, den |-> 10], [num |-> 215, den |-> 10]>>,
               <<[num |-> 0, den |-> 10], [num |-> 72, den |-> 10],
                 [num |-> 215, den |-> 10]>>,
               <<[num |-> 72, den |-> 10]>>},
        f \in BOOLEAN}
    \cup
    {[method |-> "draw_sparkline", rect |-> <<0, 0, 100, 40>>,
      data |-> <<[num |-> 0, den |-> 10], [num |-> 215, den |-> 10],
                 [num |-> 0, den |-> 10]>>,
      color |-> <<0, 255, 255>>, fill |-> FALSE, smooth |-> TRUE]}
    \cup
    {[method |-> "draw_bar", rect |-> <<x1, 5, x1 + w, 11>>, percent |-> p,
      color |-> <<0, 255, 255>>, background |-> <<100, 100, 100>>] :
        x1 \in {0, 10}, w \in {0, 5, 100},
        p \in Tenths({0, 333, 500, 1000, 1500})}
    \cup
    {[method |-> "draw_rectangle", rect |-> r, fill |-> <<18, 18, 18>>] :
        r \in {<<0, 0, 240, 240>>, <<8, 8, 116, 116>>, <<3, 3, 3, 3>>}}
    \cup
    {[method |-> "draw_line", xy |-> xy, fill |-> <<40, 40, 40>>, width |-> w] :
        xy \in {<<(<<0, 24>>), (<<240, 24>>)>>,
                <<(<<8, 8>>), (<<8, 116>>), (<<116, 116>>)>>},
        w \in {1, 3}}

HighQualityCalls ==
    {[kind |-> "HighQualityRenderer", scale |-> s, draw |-> c] :
        s \in Scales, c \in DrawingCalls}
    \cup {[kind |-> "save_image", scale |-> s] : s \in Scales}

\* a drawing method of a HighQualityRenderer(scale)
HighQualityDraw ==
    /\ pc = "call"
    /\ call.kind = "HighQualityRenderer"
    /\ result' = HighQualityRenderer(call.scale, call.draw)
    /\ pc' = "done"
    /\ UNCHANGED <<call, slots, home_assistant, heap, sensor>>

\* save_image(renderer, img, name, output_dir) for the canvas of the
\* renderer: the image that is saved
SaveImage ==
    /\ pc = "call"
    /\ call.kind = "save_image"
    /\ result' = downscale(create_canvas(call.scale))
    /\ pc' = "done"
    /\ UNCHANGED <<call, slots, home_assistant, heap, sensor>>

HighQualityInit == InitWith(HighQualityCalls)
HighQualityNext ==
    \/ HighQualityDraw
    \/ SaveImage
HighQualitySpec == HighQualityInit /\ [][HighQualityNext]_vars

\* the operations of the base Renderer for the drawing call c at nominal
\* resolution (the arguments themselves for draw_rectangle and draw_line,
\* which the base Renderer does not have)
NominalOperations(c) ==
    CASE c.method = "draw_text" ->
            draw_text(c.text, c.position, c.font, c.color, c.anchor)
      [] c.method = "draw_segmented_bar" ->
            draw_segmented_bar(c.rect, c.segments, c.background, c.radius)
      [] c.method = "draw_sparkline" ->
            draw_sparkline(c.rect, [k \in 1..Len(c.data) |-> LitOf(c.data[k])],
                           c.color, c.fill, c.smooth)
      [] c.method = "draw_bar" ->
            draw_bar(c.rect, LitOf(c.percent), c.color, c.background)
      [] c.method = "draw_rectangle" -> <<Rectangle(c.rect, c.fill)>>
      [] c.method = "draw_line" ->
            <<Line([k \in 1..Len(c.xy) |->
                       <<FromInt(c.xy[k][1]), FromInt(c.xy[k][2])>>],
                   c.fill, c.width)>>

\* the drawing operation with every coordinate, radius and line width
\* multiplied by scale
Scaled(scale, operation) ==
    CASE operation.op = "text" ->
            [operation EXCEPT !.xy = <<@[1] * scale, @[2] * scale>>]
      [] operation.op = "rectangle" ->
            [operation EXCEPT !.xy = [k \in 1..4 |-> @[k] * scale]]
      [] operation.op = "rounded_rectangle" ->
            [operation EXCEPT !.xy = [k \in 1..4 |-> @[k] * scale],
                              !.radius = @ * scale]
      [] operation.op = "polygon" ->
            [operation EXCEPT
                !.xy = [k \in 1..Len(@) |->
                           <<FMul(FromInt(scale), @[k][1]),
                             FMul(FromInt(scale), @[k][2])>>]]
      [] operation.op = "line" ->
            [operation EXCEPT
                !.xy = [k \in 1..Len(@) |->
                           <<FMul(FromInt(scale), @[k][1]),
                             FMul(FromInt(scale), @[k][2])>>],
                !.width = @ * scale]

\* C21: in supersampled mode every drawing primitive scales all its geometry:
\* the operations that reach the canvas of a HighQualityRenderer(scale) are
\* the operations of the base Renderer for the same call with every
\* coordinate, radius and line width multiplied by scale; and the image saved
\* after the downscale step is 240 x 240.
C21_SupersampledGeometry ==
    /\ (Done /\ call.kind = "HighQualityRenderer") =>
          /\ Len(result) = Len(NominalOperations(call.draw))
          /\ \A k \in 1..Len(result) :
                result[k] = Scaled(call.scale, NominalOperations(call.draw)[k])
    /\ (Done /\ call.kind = "save_image") => result.size = <<240, 240>>

(***************************************************************************)
(* GeekMagicSensorEntity (entities/sensor.py).  The coordinator is given   *)
(* by the three attributes the sensors read.                               *)
(***************************************************************************)
\* dt_util.utc_from_timestamp(timestamp)
utc_from_timestamp(timestamp) ==
    [type |-> "datetime", timestamp |-> timestamp, tzinfo |-> "UTC"]

\* the truth value of last_update_time: None or a float
TimeTruthy(x) == x # None /\ x.value.m # FZero.m

\* GeekMagicSensorEntity.native_value showing "connected" whatever the
\* outcome of the last update
native_value_always_connected(key, coordinator) ==
    IF key = <<"s", "t", "a", "t", "u", "s">>
    THEN Str(<<"c", "o", "n", "n", "e", "c", "t", "e", "d">>)
    ELSE IF key = <<"l", "a", "s", "t", "_", "u", "p", "d", "a", "t", "e">>
    THEN IF TimeTruthy(coordinator.last_update_time)
         THEN utc_from_timestamp(coordinator.last_update_time)
         ELSE None
    ELSE IF key = <<"c", "u", "r", "r", "e", "n", "t", "_", "s", "c", "r", "e", "e", "n", "_", "n", "a", "m", "e">>
    THEN coordinator.current_screen_name
    ELSE None

\* GeekMagicSensorEntity.native_value for the entity description key
native_value(key, coordinator) ==
    IF key = <<"s", "t", "a", "t", "u", "s">>
    THEN IF coordinator.last_update_success
         THEN Str(<<"c", "o", "n", "n", "e", "c", "t", "e", "d">>)
         ELSE Str(<<"d", "i", "s", "c", "o", "n", "n", "e", "c", "t", "e", "d">>)
    ELSE IF key = <<"l", "a", "s", "t", "_", "u", "p", "d", "a", "t", "e">>
    THEN IF TimeTruthy(coordinator.last_update_time)
         THEN utc_from_timestamp(coordinator.last_update_time)
         ELSE None
    ELSE IF key = <<"c", "u", "r", "r", "e", "n", "t", "_", "s", "c", "r", "e", "e", "n", "_", "n", "a", "m", "e">>
    THEN coordinator.current_screen_name
    ELSE None

\* DEVICE_SENSORS: the keys of the three device sensors
DEVICE_SENSORS == <<<<"s", "t", "a", "t", "u", "s">>, <<"l", "a", "s", "t", "_", "u", "p", "d", "a", "t", "e">>, <<"c", "u", "r", "r", "e", "n", "t", "_", "s", "c", "r", "e", "e", "n", "_", "n", "a", "m", "e">>>>

\* coordinators before and after a first update, with the last update
\* succeeded or failed, showing screens of several names
Coordinators ==
    {[last_update_success |-> ok, last_update_time |-> t,
      current_screen_name |-> n] :
        ok \in BOOLEAN,
        t \in {None, Float(FromInt(1730000000)), Float(Lit(3, 2)),
               Float(FAdd(FromInt(1762400000), Lit(1, 2)))},
        n \in {Str(<<"S", "c", "r", "e", "e", "n", " ", "1">>), Str(<<"S", "c", "r", "e", "e", "n", " ", "2">>), Str(<<"H", "o", "m", "e">>),
               Str(<<"c", "o", "n", "n", "e", "c", "t", "e", "d">>), Str(<<>>)}}

NativeValueCalls ==
    {[kind |-> "native_value", key |-> DEVICE_SENSORS[k], coordinator |-> c] :
        k \in 1..3, c \in Coordinators}

\* GeekMagicSensorEntity.native_value
NativeValue ==
    /\ pc = "call"
    /\ call.kind = "native_value"
    /\ result' = native_value(call.key, call.coordinator)
    /\ pc' = "done"
    /\ UNCHANGED <<call, slots, home_assistant, heap, sensor>>

SensorValueInit == InitWith(NativeValueCalls)
SensorValueSpec == SensorValueInit /\ [][NativeValue]_vars

\* C22: the status sensor is "connected" exactly when the coordinator's last
\* update succeeded and "disconnected" otherwise; the current_screen_name
\* sensor is the coordinator's current screen name; the last_update sensor
\* has no value until a last update time exists, and is that time afterwards.
C22_SensorValues ==
    (Done /\ call.kind = "native_value") =>
        /\ call.key = <<"s", "t", "a", "t", "u", "s">> =>
              /\ result \in {Str(<<"c", "o", "n", "n", "e", "c", "t", "e", "d">>), Str(<<"d", "i", "s", "c", "o", "n", "n", "e", "c", "t", "e", "d">>)}
              /\ result = Str(<<"c", "o", "n", "n", "e", "c", "t", "e", "d">>)
                    <=> call.coordinator.last_update_success
        /\ call.key = <<"c", "u", "r", "r", "e", "n", "t", "_", "s", "c", "r", "e", "e", "n", "_", "n", "a", "m", "e">> =>
              result = call.coordinator.current_screen_name
        /\ call.key = <<"l", "a", "s", "t", "_", "u", "p", "d", "a", "t", "e">> =>
              /\ call.coordinator.last_update_time = None => result = None
              /\ call.coordinator.last_update_time # None =>
                    /\ result # None
                    /\ result.timestamp = call.coordinator.last_update_time

\* the status sensor of a coordinator whose last update failed, before any
\* update time exists
C22_Witness ==
    /\ Done
    /\ call.kind = "native_value"
    /\ call.key = <<"s", "t", "a", "t", "u", "s">>
    /\ ~call.coordinator.last_update_success
    /\ call.coordinator.last_update_time = None
    /\ result = Str(<<"d", "i", "s", "c", "o", "n", "n", "e", "c", "t", "e", "d">>)

(***************************************************************************)
(* The sensor platform of a config entry (entities/sensor.py).  `sensor`   *)
(* holds the options of the entry's coordinator, the set                   *)
(* current_divider_ids of the platform's setup, whether the platform       *)
(* listens to the coordinator, and how often the entity of each key has    *)
(* been handed to async_add_entities.  A configuration dict is a function  *)
(* from its keys; a missing key is a key outside its domain.               *)
(***************************************************************************)
CONF_SCREENS == "screens"

CONF_LAYOUT == "layout"

LAYOUT_GRID_2X2 == "grid_2x2"

\* the slot counts of the layouts
LAYOUT_SLOT_COUNTS ==
    [layout \in {"grid_2x2", "grid_2x3", "hero", "split", "three_column"} |->
        CASE layout = "grid_2x2" -> 4
          [] layout = "grid_2x3" -> 6
          [] layout = "hero" -> 4
          [] layout = "split" -> 2
          [] layout = "three_column" -> 3]

\* f"screen_{screen_idx + 1}_divider"
screen_divider_key(screen_idx) ==
    <<"s", "c", "r", "e", "e", "n", "_">> \o IntStr(screen_idx + 1) \o <<"_", "d", "i", "v", "i", "d", "e", "r">>

\* f"screen_{screen_idx + 1}_slot_{slot_idx + 1}_divider"
slot_divider_key(screen_idx, slot_idx) ==
    <<"s", "c", "r", "e", "e", "n", "_">> \o IntStr(screen_idx + 1) \o <<"_", "s", "l", "o", "t", "_">> \o IntStr(slot_idx + 1)
      \o <<"_", "d", "i", "v", "i", "d", "e", "r">>

\* the keys async_update_dividers goes through for one screen, in its order
ScreenDividerKeys(screen_idx, screen_config) ==
    LET layout_type == Get(screen_config, CONF_LAYOUT, LAYOUT_GRID_2X2)
        slot_count  == Get(LAYOUT_SLOT_COUNTS, layout_type, 4)
    IN  <<screen_divider_key(screen_idx)>>
          \o [k \in 1..slot_count |-> slot_divider_key(screen_idx, k - 1)]

\* the keys async_update_dividers goes through for the screens from the
\* one at index screen_idx on
RECURSIVE DividerKeys(_, _)
DividerKeys(screens, screen_idx) ==
    IF screen_idx >= Len(screens) THEN <<>>
    ELSE ScreenDividerKeys(screen_idx, screens[screen_idx + 1])
           \o DividerKeys(screens, screen_idx + 1)

\* async_add_entities(entities): `added` counts, for every key, the entities
\* of that key handed over so far
async_add_entities(added, entities) ==
    [key \in DOMAIN added \cup {entities[k] : k \in 1..Len(entities)} |->
        Get(added, key, 0) + Cardinality({k \in 1..Len(entities) : entities[k] = key})]

\* async_update_dividers adding a divider for every key, created before or not
async_update_dividers_recreating(platform) ==
    LET keys == DividerKeys(Get(platform.options, CONF_SCREENS, <<>>), 0)
    IN  [platform EXCEPT
            !.current_divider_ids = @ \cup {keys[k] : k \in 1..Len(keys)},
            !.added = IF keys # <<>> THEN async_add_entities(@, keys) ELSE @]

\* async_update_dividers(): the keys not in current_divider_ids are put into
\* it and their dividers, in the order of the loops, handed to
\* async_add_entities
async_update_dividers(platform) ==
    LET keys == DividerKeys(Get(platform.options, CONF_SCREENS, <<>>), 0)
        dividers_to_add ==
            SelectSeq(keys, LAMBDA key : key \notin platform.current_divider_ids)
    IN  [platform EXCEPT
            !.current_divider_ids = @ \cup {keys[k] : k \in 1..Len(keys)},
            !.added = IF dividers_to_add # <<>>
                      THEN async_add_entities(@, dividers_to_add)
                      ELSE @]

MaxScreens == 2

\* screen configurations: without a layout, with layouts of 2 and of 6 slots,
\* and with a layout LAYOUT_SLOT_COUNTS does not know
ScreenConfigs ==
    {[name |-> Str(<<"S", "c", "r", "e", "e", "n">>)]}
      \cup {[name |-> Str(<<"S", "c", "r", "e", "e", "n">>), layout |-> l] :
                l \in {"split", "grid_2x3", "custom"}}

\* coordinator options: without screens, and with up to MaxScreens screens
CoordinatorOptions ==
    {[refresh_interval |-> 10]}
      \cup {[refresh_interval |-> 10, screens |-> s] :
                s \in UNION {[1..n -> ScreenConfigs] : n \in 0..MaxScreens}}

\* async_setup_entry(hass, entry, async_add_entities) of the sensor platform
SensorSetupEntry ==
    /\ pc = "platform"
    /\ ~sensor.listening
    /\ sensor' = [async_update_dividers(
                      [sensor EXCEPT
                          !.added = async_add_entities(@, DEVICE_SENSORS),
                          !.current_divider_ids = {}])
                  EXCEPT !.listening = TRUE]
    /\ UNCHANGED <<pc, call, slots, result, home_assistant, heap>>

\* an update of the coordinator, with the options changed to `options` or as
\* they were: the coordinator calls its listeners
CoordinatorUpdate(options) ==
    /\ pc = "platform"
    /\ sensor' = IF sensor.listening
                 THEN async_update_dividers([sensor EXCEPT !.options = options])
                 ELSE [sensor EXCEPT !.options = options]
    /\ UNCHANGED <<pc, call, slots, result, home_assistant, heap>>

SensorInit ==
    /\ pc = "platform"
    /\ call = "none"
    /\ slots = <<>>
    /\ result = "none"
    /\ home_assistant = "none"
    /\ heap = <<>>
    /\ sensor \in {[options |-> o, listening |-> FALSE,
                    current_divider_ids |-> {}, added |-> <<>>] :
                      o \in CoordinatorOptions}

SensorNext ==
    \/ SensorSetupEntry
    \/ \E options \in CoordinatorOptions : CoordinatorUpdate(options)

SensorSpec == SensorInit /\ [][SensorNext]_vars

\* the divider keys of the configured screens: one per screen and one per
\* slot index below the slot count of the screen's layout, 4 for a layout
\* without a known count
RequiredDividers ==
    LET screens == Get(sensor.options, CONF_SCREENS, <<>>)
    IN  UNION {{screen_divider_key(i - 1)}
                 \cup {slot_divider_key(i - 1, j) :
                          j \in 0..(IF /\ CONF_LAYOUT \in DOMAIN screens[i]
                                       /\ screens[i].layout \in DOMAIN LAYOUT_SLOT_COUNTS
                                    THEN LAYOUT_SLOT_COUNTS[screens[i].layout]
                                    ELSE IF CONF_LAYOUT \in DOMAIN screens[i]
                                    THEN 4
                                    ELSE LAYOUT_SLOT_COUNTS[LAYOUT_GRID_2X2]) - 1} :
               i \in 1..Len(screens)}

\* every key has been handed to async_add_entities at most once, and once
\* the platform is set up the device sensors and the dividers of the
\* configured screens and slots have been
DividersOnceAndCovering ==
    /\ \A key \in DOMAIN sensor.added : sensor.added[key] = 1
    /\ sensor.listening =>
          /\ RequiredDividers \subseteq DOMAIN sensor.added
          /\ \A k \in 1..3 : DEVICE_SENSORS[k] \in DOMAIN sensor.added

\* C30: divider entities are created once and cover the configuration: every
\* key is handed to async_add_entities at most once, after the setup and
\* after every coordinator update there is a divider for every configured
\* screen and for every slot of its layout (4 slots for an unknown layout),
\* and a divider created earlier is never removed.
C30_DividersOnceAndCovering ==
    /\ []DividersOnceAndCovering
    /\ [][DOMAIN sensor.added \subseteq DOMAIN sensor.added']_vars

\* one screen is configured, with a layout of two slots, after two screens
\* and six slots have had their dividers created
C30_Witness ==
    /\ sensor.listening
    /\ Len(Get(sensor.options, CONF_SCREENS, <<>>)) = 1
    /\ Get(sensor.options.screens[1], CONF_LAYOUT, "none") = "split"
    /\ screen_divider_key(1) \in DOMAIN sensor.added
    /\ slot_divider_key(0, 5) \in DOMAIN sensor.added
    /\ slot_divider_key(1, 3) \in DOMAIN sensor.added

(***************************************************************************)
(* The services of the integration (__init__.py).  `home_assistant` is a   *)
(* record: `data` is hass.data[DOMAIN], the coordinator of each entry id   *)
(* that has one; `services` counts the registrations of each service name  *)
(* of the domain; `entries` gives for each config entry the address of its *)
(* options and how far its setup or unload has come; `handled` counts the  *)
(* service calls handled.  `heap` is the sequence of the Python objects    *)
(* allocated so far, the address of an object being its position: a dict   *)
(* is a function of its keys, a list a sequence, and a dict or list held   *)
(* by another object is held as a reference to its address.  Entry ids,    *)
(* layouts and widget types are strings, with "" where the call has none   *)
(* (the handlers only test them for truth and compare them); names, entity *)
(* ids and labels are str values or None.                                  *)
(***************************************************************************)
CONF_WIDGETS == "widgets"

\* a reference to the object at address a
Ref(a) == [ref |-> a]

\* d[key] = value on a dict d
SetItem(d, key, value) ==
    [k \in DOMAIN d \cup {key} |-> IF k = key THEN value ELSE d[k]]

\* {**a, **b}: the keys of both, b's values first
Merged(a, b) ==
    [k \in DOMAIN a \cup DOMAIN b |-> IF k \in DOMAIN b THEN b[k] ELSE a[k]]

\* list.pop(i), i counted from 1
Pop(list, i) == SubSeq(list, 1, i - 1) \o SubSeq(list, i + 1, Len(list))

\* the position, counted from 1, of list[index]: a negative index counts
\* from the end; 0 when list[index] raises IndexError
Position(list, index) ==
    LET i == IF index < 0 THEN index + Len(list) + 1 ELSE index + 1
    IN  IF i \in 1..Len(list) THEN i ELSE 0

\* what a handler leaves: Home Assistant, the heap, and None or the exception
Outcome(hass, objects, value) ==
    [hass |-> hass, heap |-> objects, result |-> value]

\* dict(x) or list(x): a new object, at address Len(objects) + 1, with the
\* items of the object at address x
copy(objects, x) == Append(objects, objects[x])

\* list(d.get(key, [])) for the dict at address d: a new list
list_of(objects, d, key) ==
    Append(objects,
           IF key \in DOMAIN objects[d] THEN objects[objects[d][key].ref]
           ELSE <<>>)

\* d[key] = value for the dict at address d
set_item(objects, d, key, value) ==
    [objects EXCEPT ![d] = SetItem(@, key, value)]

\* items[at] = dict(items[at]) for the list at address items
replace_by_copy(objects, items, at) ==
    [copy(objects, objects[items][at].ref)
        EXCEPT ![items][at] = Ref(Len(objects) + 1)]

\* hass.config_entries.async_update_entry(entry, options=new_options)
async_update_entry(hass, entry, new_options) ==
    [hass EXCEPT !.entries[entry].options = new_options]

\* while len(screens) <= screen_index: screens.append({...}), on the list at
\* address `screens`
RECURSIVE ensure_screen_exists(_, _, _)
ensure_screen_exists(objects, screens, screen_index) ==
    IF Len(objects[screens]) <= screen_index
    THEN ensure_screen_exists(
             [Append(Append(objects, <<>>),
                     [name |-> Str(<<"S", "c", "r", "e", "e", "n", " ">>
                                     \o IntStr(Len(objects[screens]) + 1)),
                      layout |-> LAYOUT_GRID_2X2,
                      widgets |-> Ref(Len(objects) + 1)])
                 EXCEPT ![screens] = Append(@, Ref(Len(objects) + 2))],
             screens, screen_index)
    ELSE objects

\* if name: screens[screen_index]["name"] = name, and the same for layout,
\* on the dict at address `screen`
apply_settings(objects, screen, name, layout) ==
    IF Truthy(name)
    THEN IF layout # ""
         THEN set_item(set_item(objects, screen, "name", name),
                       screen, CONF_LAYOUT, layout)
         ELSE set_item(objects, screen, "name", name)
    ELSE IF layout # ""
         THEN set_item(objects, screen, CONF_LAYOUT, layout)
         ELSE objects

\* handle_configure_screen from screens[screen_index] = dict(...) on, with
\* new_options and the list screens at the addresses new_options and
\* new_options + 1
configure_screen(hass, objects, entry, new_options, data) ==
    LET screens == new_options + 1
        at == Position(objects[screens], Get(data, "screen", 1) - 1)
    IN  IF at = 0
        THEN Outcome(hass, objects, Raise("IndexError"))
        ELSE Outcome(
                 async_update_entry(hass, entry, new_options),
                 set_item(apply_settings(replace_by_copy(objects, screens, at),
                                         Len(objects) + 1,
                                         Get(data, "name", None),
                                         Get(data, "layout", "")),
                          new_options, CONF_SCREENS, Ref(screens)),
                 None)

\* handle_configure_screen(call)
handle_configure_screen(hass, objects, data) ==
    LET entry_id == Get(data, "entry_id", "")
        screen_index == Get(data, "screen", 1) - 1
        new_options == Len(objects) + 1
    IN  IF entry_id \notin DOMAIN hass.data
        THEN Outcome(hass, objects, None)
        ELSE LET entry == hass.data[entry_id].config_entry
             IN  configure_screen(
                     hass,
                     ensure_screen_exists(
                         list_of(copy(objects, hass.entries[entry].options),
                                 new_options, CONF_SCREENS),
                         new_options + 1, screen_index),
                     entry, new_options, data)

\* no entry of the widget list is ever found
found_at_never(objects, widgets, slot_index) == 0

\* the first position of the widget list at address `widgets` whose entry
\* has the slot (widget.get("slot") == slot_index), 0 when there is none
found_at(objects, widgets, slot_index) ==
    LET matching == {i \in 1..Len(objects[widgets]) :
                        LET widget == objects[objects[widgets][i].ref]
                        IN  "slot" \in DOMAIN widget /\ widget.slot = slot_index}
    IN  IF matching = {} THEN 0
        ELSE CHOOSE i \in matching : \A j \in matching : i <= j

\* if widget_type: widget["type"] = widget_type, and the same for entity_id
\* and label, on the dict widget
with_fields(widget, data) ==
    LET widget_type == Get(data, "widget_type", "")
        entity_id == Get(data, "entity_id", None)
        label == Get(data, "label", None)
    IN  [k \in DOMAIN widget
               \cup (IF widget_type # "" THEN {"type"} ELSE {})
               \cup (IF Truthy(entity_id) THEN {"entity_id"} ELSE {})
               \cup (IF Truthy(label) THEN {"label"} ELSE {})
           |-> IF k = "type" /\ widget_type # "" THEN widget_type
               ELSE IF k = "entity_id" /\ Truthy(entity_id) THEN entity_id
               ELSE IF k = "label" /\ Truthy(label) THEN label
               ELSE widget[k]]

\* if options: the call has an options dict and it is not empty
has_options(objects, data) ==
    "options" \in DOMAIN data /\ DOMAIN objects[data.options.ref] # {}

\* widgets[i]["options"] = {**widgets[i].get("options", {}), **options} for
\* the widget dict at address `widget`
merge_options(objects, widget, options) ==
    set_item(Append(objects,
                    Merged(IF "options" \in DOMAIN objects[widget]
                           THEN objects[objects[widget].options.ref]
                           ELSE <<>>,
                           objects[options])),
             widget, "options", Ref(Len(objects) + 1))

\* the widget found at widgets[i]: popped for the widget type "empty",
\* replaced by a copy that takes the fields of the call otherwise
update_widget(objects, widgets, i, data) ==
    IF Get(data, "widget_type", "") = "empty"
    THEN [objects EXCEPT ![widgets] = Pop(@, i)]
    ELSE IF has_options(objects, data)
    THEN merge_options(
             [replace_by_copy(objects, widgets, i)
                 EXCEPT ![Len(objects) + 1] = with_fields(@, data)],
             Len(objects) + 1, data.options.ref)
    ELSE [replace_by_copy(objects, widgets, i)
             EXCEPT ![Len(objects) + 1] = with_fields(@, data)]

\* no widget found: a new widget is appended when the call has a widget
\* type other than "empty"
create_widget(objects, widgets, data) ==
    LET widget_type == Get(data, "widget_type", "")
        new_widget == with_fields([type |-> widget_type,
                                   slot |-> Get(data, "slot", 1) - 1], data)
    IN  IF widget_type # "" /\ widget_type # "empty"
        THEN [Append(objects,
                     IF has_options(objects, data)
                     THEN SetItem(new_widget, "options", data.options)
                     ELSE new_widget)
                 EXCEPT ![widgets] = Append(@, Ref(Len(objects) + 1))]
        ELSE objects

\* handle_configure_widget from "Find or create widget for this slot" on,
\* with new_options, the list screens, the dict of the screen and the list
\* widgets at the four addresses from new_options on
find_or_create_widget(hass, objects, entry, new_options, data) ==
    LET screens == new_options + 1
        screen == new_options + 2
        widgets == new_options + 3
        i == found_at(objects, widgets, Get(data, "slot", 1) - 1)
    IN  Outcome(
            async_update_entry(hass, entry, new_options),
            set_item(set_item(IF i # 0
                              THEN update_widget(objects, widgets, i, data)
                              ELSE create_widget(objects, widgets, data),
                              screen, CONF_WIDGETS, Ref(widgets)),
                     new_options, CONF_SCREENS, Ref(screens)),
            None)

\* handle_configure_widget from the test of the screen index on, with
\* new_options and the list screens at new_options and new_options + 1
configure_widget(hass, objects, entry, new_options, data) ==
    LET screens == new_options + 1
        screen_index == Get(data, "screen", 1) - 1
        at == Position(objects[screens], screen_index)
    IN  IF screen_index >= Len(objects[screens])
        THEN Outcome(hass, objects, None)
        ELSE IF at = 0
        THEN Outcome(hass, objects, Raise("IndexError"))
        ELSE find_or_create_widget(
                 hass,
                 list_of(replace_by_copy(objects, screens, at),
                         new_options + 2, CONF_WIDGETS),
                 entry, new_options, data)

\* handle_configure_widget(call); the options of the call are the dict at
\* address data.options when the call has any
handle_configure_widget(hass, objects, data) ==
    LET entry_id == Get(data, "entry_id", "")
        new_options == Len(objects) + 1
    IN  IF entry_id \notin DOMAIN hass.data
        THEN Outcome(hass, objects, None)
        ELSE LET entry == hass.data[entry_id].config_entry
             IN  configure_widget(
                     hass,
                     list_of(copy(objects, hass.entries[entry].options),
                             new_options, CONF_SCREENS),
                     entry, new_options, data)

\* the services of the domain
SERVICES ==
    {"refresh", "brightness", "set_screen", "next_screen", "previous_screen",
     "configure_screen", "configure_widget"}

\* service calls handled in one behaviour
MaxCalls == 2

\* what the configure_widget calls say about the widget; `options` is the
\* options dict of the call, in a sequence that is empty for a call without
WidgetCallFields ==
    {[data |-> [entry_id |-> "e1", widget_type |-> "clock"], options |-> <<>>],
     [data |-> [entry_id |-> "e1", widget_type |-> "empty"], options |-> <<>>],
     [data |-> [entry_id |-> "e1", entity_id |-> Str(<<"s", "e", "n", "s", "o", "r", ".", "p", "o", "w", "e", "r">>),
                label |-> Str(<<"P", "o", "w", "e", "r">>)],
      options |-> <<[show_name |-> FALSE, decimals |-> 0]>>],
     [data |-> [entry_id |-> "e1", widget_type |-> "entity",
                entity_id |-> Str(<<"s", "e", "n", "s", "o", "r", ".", "p", "o", "w", "e", "r">>), label |-> Str(<<>>)],
      options |-> <<[decimals |-> 2]>>],
     [data |-> [entry_id |-> "e1", widget_type |-> "", entity_id |-> Str(<<>>)],
      options |-> << <<>> >>]}

\* the screen and the slot of the configure_widget calls, counted from 1
WidgetCallTargets == {<<0, 1>>, <<1, 1>>, <<1, 2>>, <<2, 1>>, <<3, 2>>}

\* the configure_widget calls: for the targets in the entry that is set up,
\* and without a screen or a slot, for an entry that is not set up, for an
\* entry id that is unknown and without an entry id
WidgetCalls ==
    {[data |-> SetItem(SetItem(fields.data, "screen", target[1]),
                       "slot", target[2]),
      options |-> fields.options] :
        fields \in WidgetCallFields, target \in WidgetCallTargets}
      \cup {[data |-> [entry_id |-> "e1", widget_type |-> "clock"],
             options |-> <<>>],
            [data |-> [entry_id |-> "e2", widget_type |-> "clock",
                       screen |-> 1, slot |-> 1],
             options |-> <<>>],
            [data |-> [entry_id |-> "unknown", widget_type |-> "clock",
                       screen |-> 1, slot |-> 2],
             options |-> <<[decimals |-> 2]>>],
            [data |-> [widget_type |-> "clock", screen |-> 1, slot |-> 1],
             options |-> <<>>]}

\* the data of the configure_screen calls
ScreenCallData ==
    {SetItem(fields, "screen", screen) :
        fields \in {[entry_id |-> "e1"],
                    [entry_id |-> "e1", name |-> Str(<<"D", "e", "n">>)],
                    [entry_id |-> "e1", name |-> Str(<<>>), layout |-> "split"]},
        screen \in {0, 1, 3}}
      \cup {[entry_id |-> "e1", name |-> Str(<<"D", "e", "n">>), layout |-> ""],
            [entry_id |-> "e2", name |-> Str(<<"D", "e", "n">>), screen |-> 1],
            [entry_id |-> "unknown", layout |-> "split", screen |-> 2],
            [layout |-> "split", screen |-> 1]}

\* a call of the configure_screen service
ConfigureScreen(data) ==
    /\ pc = "hass"
    /\ home_assistant.handled < MaxCalls
    /\ "configure_screen" \in DOMAIN home_assistant.services
    /\ LET outcome == handle_configure_screen(home_assistant, heap, data)
       IN  /\ home_assistant' = [outcome.hass EXCEPT !.handled = @ + 1]
           /\ heap' = outcome.heap
           /\ result' = outcome.result
    /\ call' = [service |-> "configure_screen", data |-> data]
    /\ UNCHANGED <<pc, slots, sensor>>

\* a call of the configure_widget service; the options dict of the call, if
\* any, is an object of its own
ConfigureWidget(data, options) ==
    /\ pc = "hass"
    /\ home_assistant.handled < MaxCalls
    /\ "configure_widget" \in DOMAIN home_assistant.services
    /\ LET call_data == IF options # <<>>
                        THEN SetItem(data, "options", Ref(Len(heap) + 1))
                        ELSE data
           outcome == handle_configure_widget(home_assistant, heap \o options,
                                              call_data)
       IN  /\ home_assistant' = [outcome.hass EXCEPT !.handled = @ + 1]
           /\ heap' = outcome.heap
           /\ result' = outcome.result
           /\ call' = [service |-> "configure_widget", data |-> call_data]
    /\ UNCHANGED <<pc, slots, sensor>>

\* Home Assistant with entry e1 set up and entry e2 not: the coordinator of
\* e1 is stored and the services are registered
OneEntrySetUp ==
    [data |-> [e \in {"e1"} |-> [config_entry |-> e]],
     services |-> [service \in SERVICES |-> 1],
     entries |-> [e \in {"e1", "e2"} |->
                     [options |-> IF e = "e1" THEN 2 ELSE 1,
                      state |-> IF e = "e1" THEN "loaded" ELSE "not_loaded",
                      platforms |-> e = "e1"]],
     handled |-> 0]

\* the options of e1: without screens; one screen without a widget list; two
\* screens, the first with widgets in slots 1 and 0 (0-based), in that order
ConfigInit ==
    /\ pc = "hass"
    /\ call = [service |-> "none", data |-> [entry_id |-> ""]]
    /\ slots = <<>>
    /\ result = None
    /\ sensor = "none"
    /\ home_assistant = OneEntrySetUp
    /\ \/ heap = <<[refresh_interval |-> 10], [refresh_interval |-> 10]>>
       \/ heap = <<[refresh_interval |-> 10],
                   [refresh_interval |-> 10, screens |-> Ref(3)],
                   <<Ref(4)>>,
                   [name |-> Str(<<"H", "o", "m", "e">>), layout |-> "hero"]>>
       \/ heap = <<[refresh_interval |-> 10],
                   [refresh_interval |-> 10, screens |-> Ref(3)],
                   <<Ref(4), Ref(9)>>,
                   [name |-> Str(<<"H", "o", "m", "e">>), layout |-> "grid_2x2",
                    widgets |-> Ref(5)],
                   <<Ref(6), Ref(8)>>,
                   [type |-> "entity", slot |-> 1,
                    entity_id |-> Str(<<"s", "e", "n", "s", "o", "r", ".", "t", "e", "m", "p">>), options |-> Ref(7)],
                   [show_name |-> TRUE, color |-> 3],
                   [type |-> "clock", slot |-> 0],
                   [name |-> Str(<<"S", "c", "r", "e", "e", "n", " ", "2">>), layout |-> "split",
                    widgets |-> Ref(10)],
                   <<>> >>

ConfigNext ==
    \/ \E data \in ScreenCallData : ConfigureScreen(data)
    \/ \E c \in WidgetCalls : ConfigureWidget(c.data, c.options)

ConfigSpec == ConfigInit /\ [][ConfigNext]_vars

\* the screens of an entry's stored options: the addresses of their dicts
Screens(hass, objects, entry) ==
    LET options == objects[hass.entries[entry].options]
    IN  IF CONF_SCREENS \in DOMAIN options
        THEN [i \in 1..Len(objects[options.screens.ref]) |->
                 objects[options.screens.ref][i].ref]
        ELSE <<>>

\* a widget entry with its options dict in place of the reference to it
WidgetValue(objects, widget) ==
    [k \in DOMAIN objects[widget] |->
        IF k = "options" THEN objects[objects[widget].options.ref]
        ELSE objects[widget][k]]

\* the widget entries of the screen at address `screen`
ScreenWidgets(objects, screen) ==
    IF CONF_WIDGETS \in DOMAIN objects[screen]
    THEN [i \in 1..Len(objects[objects[screen].widgets.ref]) |->
             WidgetValue(objects, objects[objects[screen].widgets.ref][i].ref)]
    ELSE <<>>

\* the name and the layout of the screen at address `screen`
ScreenSettings(objects, screen) ==
    [k \in DOMAIN objects[screen] \ {CONF_WIDGETS} |-> objects[screen][k]]

\* the entry of the widget list is for the slot
ForSlot(widget, slot) == "slot" \in DOMAIN widget /\ widget.slot = slot

\* the step is a call of the service
Handles(service) ==
    /\ home_assistant'.handled # home_assistant.handled
    /\ call'.service = service

\* no screen of a config entry has two widget entries with the same slot
OneWidgetPerSlot ==
    \A entry \in DOMAIN home_assistant.entries :
       LET screens == Screens(home_assistant, heap, entry)
       IN  \A p \in DOMAIN screens :
              LET widgets == ScreenWidgets(heap, screens[p])
              IN  \A i, j \in DOMAIN widgets :
                     (i # j /\ "slot" \in DOMAIN widgets[i])
                        => ~ForSlot(widgets[j], widgets[i].slot)

\* a configure_widget call leaves as many entries, or one less when it is for
\* the widget type "empty", on a screen that has an entry for the slot, and
\* without a widget type, or with "empty", it leaves the entries as they are
\* on a screen that has no entry for the slot
UpdatesInsteadOfAppending ==
    Handles("configure_widget") =>
        LET before == Screens(home_assistant, heap, "e1")
            after == Screens(home_assistant', heap', "e1")
            slot == Get(call'.data, "slot", 1) - 1
            widget_type == Get(call'.data, "widget_type", "")
        IN  /\ Len(after) = Len(before)
            /\ \A p \in DOMAIN before :
                  LET b == ScreenWidgets(heap, before[p])
                      a == ScreenWidgets(heap', after[p])
                  IN  IF \E i \in DOMAIN b : ForSlot(b[i], slot)
                      THEN \/ Len(a) = Len(b)
                           \/ widget_type = "empty" /\ Len(a) = Len(b) - 1
                      ELSE widget_type \in {"", "empty"} => a = b

\* C24: configure_widget keeps at most one widget entry per slot on every
\* screen; a call for a slot that has an entry updates or removes that entry
\* instead of appending, and a call with the widget type "empty" or without
\* a widget type for a slot without an entry adds nothing.
C24_OneWidgetPerSlot ==
    /\ []OneWidgetPerSlot
    /\ [][UpdatesInsteadOfAppending]_vars

\* the entity widget in slot 2 of screen 1 has become a clock: the call
\* updated the entry, the screen still has its two entries
C24_Witness ==
    /\ home_assistant.handled = 1
    /\ call.service = "configure_widget"
    /\ Get(call.data, "widget_type", "") = "clock"
    /\ Get(call.data, "screen", 1) = 1
    /\ Get(call.data, "slot", 1) = 2
    /\ LET screens == Screens(home_assistant, heap, "e1")
       IN  /\ Len(screens) = 2
           /\ LET widgets == ScreenWidgets(heap, screens[1])
              IN  /\ Len(widgets) = 2
                  /\ widgets[1].slot = 1
                  /\ widgets[1].type = "clock"
                  /\ widgets[2].slot = 0

\* no object that existed before the step has changed
NothingMutated == \A a \in 1..Len(heap) : heap'[a] = heap[a]

\* C25: configure_widget with a screen number below 1 or above the number of
\* configured screens, or with an entry id that has no coordinator, changes
\* nothing: the stored options are not updated and no widget of any screen
\* is created, modified or removed.
C25_InvalidCallChangesNothing ==
    [][(/\ Handles("configure_widget")
        /\ LET entry_id == Get(call'.data, "entry_id", "")
           IN  \/ entry_id \notin DOMAIN home_assistant.data
               \/ Get(call'.data, "screen", 1)
                     \notin 1..Len(Screens(home_assistant, heap, entry_id)))
          => /\ home_assistant'.entries = home_assistant.entries
             /\ NothingMutated]_vars

\* the widget entries other than those for the slot, in their order
Others(widgets, slot) == SelectSeq(widgets, LAMBDA w : ~ForSlot(w, slot))

\* the entry for the slot after the call differs from the entry before it
\* only in the fields the call supplies and in options merged over its own
OnlySuppliedFields(b, a, data, options) ==
    LET widget_type == Get(data, "widget_type", "")
        entity_id == Get(data, "entity_id", None)
        label == Get(data, "label", None)
        was == Get(b, "options", <<>>)
        is == Get(a, "options", <<>>)
    IN  /\ \A k \in (DOMAIN a \cup DOMAIN b) \ {"options"} :
              \/ k \in DOMAIN a /\ k \in DOMAIN b /\ a[k] = b[k]
              \/ k = "type" /\ widget_type # "" /\ k \in DOMAIN a
                            /\ a[k] = widget_type
              \/ k = "entity_id" /\ Truthy(entity_id) /\ k \in DOMAIN a
                                 /\ a[k] = entity_id
              \/ k = "label" /\ Truthy(label) /\ k \in DOMAIN a /\ a[k] = label
        /\ DOMAIN is = DOMAIN was \cup DOMAIN options
        /\ \A k \in DOMAIN is :
              is[k] = IF k \in DOMAIN options THEN options[k] ELSE was[k]

\* a configure_widget call for (screen k, slot j) changes only the widget
\* entry of slot j on screen k, and there only what the call supplies
OnlyTheSlotOfTheScreen ==
    LET before == Screens(home_assistant, heap, "e1")
        after == Screens(home_assistant', heap', "e1")
        k == Get(call'.data, "screen", 1)
        slot == Get(call'.data, "slot", 1) - 1
        options == IF "options" \in DOMAIN call'.data
                   THEN heap'[call'.data.options.ref] ELSE <<>>
    IN  /\ Len(after) = Len(before)
        /\ \A p \in DOMAIN before :
              LET b == ScreenWidgets(heap, before[p])
                  a == ScreenWidgets(heap', after[p])
              IN  /\ ScreenSettings(heap', after[p])
                        = ScreenSettings(heap, before[p])
                  /\ p # k => a = b
                  /\ p = k =>
                        /\ Others(a, slot) = Others(b, slot)
                        /\ \A i \in DOMAIN b, j \in DOMAIN a :
                              (ForSlot(b[i], slot) /\ ForSlot(a[j], slot))
                                 => OnlySuppliedFields(b[i], a[j], call'.data,
                                                       options)

\* C26: a configure_widget call for (screen k, slot j) changes only the
\* widget entry of slot j on screen k: the other screens, the name and the
\* layout of screen k and its entries for other slots are as before; in the
\* entry only the supplied fields change and supplied options are merged
\* over the existing ones; the stored options object is not changed in place.
C26_OnlyTheSlotOfTheScreen ==
    [][Handles("configure_widget")
          => IF Get(call'.data, "entry_id", "") \in DOMAIN home_assistant.data
             THEN OnlyTheSlotOfTheScreen /\ NothingMutated
             ELSE /\ home_assistant'.entries = home_assistant.entries
                  /\ NothingMutated]_vars

\* the same for the calls whose screen number names a screen
FrameForExistingScreen ==
    [][(/\ Handles("configure_widget")
        /\ Get(call'.data, "screen", 1)
              \in 1..Len(Screens(home_assistant, heap, "e1")))
          => IF Get(call'.data, "entry_id", "") \in DOMAIN home_assistant.data
             THEN OnlyTheSlotOfTheScreen /\ NothingMutated
             ELSE /\ home_assistant'.entries = home_assistant.entries
                  /\ NothingMutated]_vars

\* the screen of a configure_screen call: as created for position p, with
\* the name and the layout of the call if it has any
AsCreated(p, data) ==
    [name |-> IF Truthy(Get(data, "name", None)) THEN data.name
              ELSE Str(<<"S", "c", "r", "e", "e", "n", " ">> \o IntStr(p)),
     layout |-> IF Get(data, "layout", "") # "" THEN data.layout
                ELSE LAYOUT_GRID_2X2]

\* configure_screen for screen k: the screens up to k exist afterwards, the
\* new ones as created, the others as before, screen k with the name and the
\* layout of the call, if any, and its widgets as before
EnsuresTheScreen ==
    LET before == Screens(home_assistant, heap, "e1")
        after == Screens(home_assistant', heap', "e1")
        k == Get(call'.data, "screen", 1)
        none == [entry_id |-> "e1"]
    IN  /\ Len(after) = Max(Len(before), k)
        /\ \A p \in DOMAIN after :
              LET settings == ScreenSettings(heap', after[p])
                  widgets == ScreenWidgets(heap', after[p])
              IN  IF p \in DOMAIN before
                  THEN /\ widgets = ScreenWidgets(heap, before[p])
                       /\ CONF_WIDGETS \in DOMAIN heap'[after[p]]
                             <=> CONF_WIDGETS \in DOMAIN heap[before[p]]
                       /\ LET was == ScreenSettings(heap, before[p])
                          IN  \A key \in DOMAIN settings \cup DOMAIN was :
                                 \/ /\ key \in DOMAIN settings
                                    /\ key \in DOMAIN was
                                    /\ settings[key] = was[key]
                                 \/ /\ p = k
                                    /\ key = "name"
                                    /\ Truthy(Get(call'.data, "name", None))
                                    /\ key \in DOMAIN settings
                                    /\ settings[key] = call'.data.name
                                 \/ /\ p = k
                                    /\ key = CONF_LAYOUT
                                    /\ Get(call'.data, "layout", "") # ""
                                    /\ key \in DOMAIN settings
                                    /\ settings[key] = call'.data.layout
                  ELSE /\ settings = AsCreated(p, IF p = k THEN call'.data ELSE none)
                       /\ CONF_WIDGETS \in DOMAIN heap'[after[p]]
                       /\ widgets = <<>>

\* C27: configure_screen with screen number k ensures the screen exists: the
\* list has length max(previous length, k) afterwards, a new screen at
\* position i is "Screen i" with layout grid_2x2 and no widgets, the
\* existing screens other than k are unchanged, screen k changes its name
\* and layout only to a non-empty name or layout of the call and keeps its
\* widgets; an unknown entry id changes nothing.
C27_EnsuresTheScreen ==
    [][Handles("configure_screen")
          => IF Get(call'.data, "entry_id", "") \in DOMAIN home_assistant.data
             THEN EnsuresTheScreen /\ NothingMutated
             ELSE /\ home_assistant'.entries = home_assistant.entries
                  /\ NothingMutated]_vars

\* the same for the calls whose screen number is at least 1
EnsuresTheScreenFromOne ==
    [][(Handles("configure_screen") /\ Get(call'.data, "screen", 1) >= 1)
          => IF Get(call'.data, "entry_id", "") \in DOMAIN home_assistant.data
             THEN EnsuresTheScreen /\ NothingMutated
             ELSE /\ home_assistant'.entries = home_assistant.entries
                  /\ NothingMutated]_vars

(***************************************************************************)
(* Setting up and unloading config entries (async_setup_entry and          *)
(* async_unload_entry of __init__.py).  Both are coroutines: a step runs   *)
(* one from an await to the next, and the coroutines of different entries  *)
(* interleave at the awaits.  The state of an entry says where its         *)
(* coroutine waits ("test_connection", "first_refresh",                    *)
(* "forward_entry_setups", "unload_platforms") or how it ended.  The       *)
(* connection test, the first refresh and the unloading of the platforms   *)
(* succeed or fail; Home Assistant sets a failed entry up again.           *)
(***************************************************************************)
\* hass.services.async_register for each of the names: one more
\* registration of each
async_register(services, names) ==
    [service \in DOMAIN services \cup names |->
        Get(services, service, 0) + (IF service \in names THEN 1 ELSE 0)]

\* the services are registered whether or not they are already
async_setup_services_again(hass) ==
    [hass EXCEPT !.services = async_register(@, SERVICES)]

\* async_setup_services(hass)
async_setup_services(hass) ==
    IF "refresh" \in DOMAIN hass.services
    THEN hass
    ELSE [hass EXCEPT !.services = async_register(@, SERVICES)]

\* hass.data[DOMAIN][entry.entry_id] = coordinator
store_coordinator(hass, entry) ==
    [hass EXCEPT !.data = SetItem(@, entry, [config_entry |-> entry])]

\* the coordinator is removed whether or not the platforms were unloaded
async_unload_entry_removing(hass, entry, unload_ok) ==
    [hass EXCEPT
        !.data = [e \in DOMAIN @ \ {entry} |-> @[e]],
        !.entries[entry].state = IF unload_ok THEN "not_loaded"
                                 ELSE "failed_unload",
        !.entries[entry].platforms = ~unload_ok]

\* async_unload_entry(hass, entry) after the platforms were unloaded, or not
async_unload_entry(hass, entry, unload_ok) ==
    [hass EXCEPT
        !.data = IF unload_ok /\ entry \in DOMAIN @
                 THEN [e \in DOMAIN @ \ {entry} |-> @[e]]
                 ELSE @,
        !.entries[entry].state = IF unload_ok THEN "not_loaded"
                                 ELSE "failed_unload",
        !.entries[entry].platforms = ~unload_ok]

\* async_setup_entry(hass, entry) up to `await device.test_connection()`
SetupEntry(entry) ==
    /\ pc = "hass"
    /\ home_assistant.entries[entry].state
          \in {"not_loaded", "setup_error", "setup_retry"}
    /\ home_assistant' =
          [home_assistant EXCEPT !.entries[entry].state = "test_connection"]
    /\ UNCHANGED <<pc, call, slots, result, heap, sensor>>

\* the connection test ends: async_setup_entry returns False, or creates the
\* coordinator and awaits its first refresh
TestConnection(entry, connected) ==
    /\ pc = "hass"
    /\ home_assistant.entries[entry].state = "test_connection"
    /\ IF connected
       THEN /\ home_assistant' =
                  [home_assistant EXCEPT !.entries[entry].state = "first_refresh"]
            /\ UNCHANGED result
       ELSE /\ home_assistant' =
                  [home_assistant EXCEPT !.entries[entry].state = "setup_error"]
            /\ result' = Return(FALSE)
    /\ UNCHANGED <<pc, call, slots, heap, sensor>>

\* the first refresh ends: it raises ConfigEntryNotReady, or async_setup_entry
\* stores the coordinator, registers the services and awaits the setup of
\* the platforms
FirstRefresh(entry, refreshed) ==
    /\ pc = "hass"
    /\ home_assistant.entries[entry].state = "first_refresh"
    /\ IF refreshed
       THEN /\ home_assistant' =
                  [async_setup_services(store_coordinator(home_assistant, entry))
                      EXCEPT !.entries[entry].state = "forward_entry_setups"]
            /\ UNCHANGED result
       ELSE /\ home_assistant' =
                  [home_assistant EXCEPT !.entries[entry].state = "setup_retry"]
            /\ result' = Raise("ConfigEntryNotReady")
    /\ UNCHANGED <<pc, call, slots, heap, sensor>>

\* the platforms are set up: async_setup_entry returns True
ForwardEntrySetups(entry) ==
    /\ pc = "hass"
    /\ home_assistant.entries[entry].state = "forward_entry_setups"
    /\ home_assistant' =
          [home_assistant EXCEPT !.entries[entry].state = "loaded",
                                 !.entries[entry].platforms = TRUE]
    /\ result' = Return(TRUE)
    /\ UNCHANGED <<pc, call, slots, heap, sensor>>

\* async_unload_entry(hass, entry) up to `await async_unload_platforms(...)`
UnloadEntry(entry) ==
    /\ pc = "hass"
    /\ home_assistant.entries[entry].state = "loaded"
    /\ home_assistant' =
          [home_assistant EXCEPT !.entries[entry].state = "unload_platforms"]
    /\ UNCHANGED <<pc, call, slots, result, heap, sensor>>

\* the unloading of the platforms ends: async_unload_entry returns its result
UnloadPlatforms(entry, unload_ok) ==
    /\ pc = "hass"
    /\ home_assistant.entries[entry].state = "unload_platforms"
    /\ home_assistant' = async_unload_entry(home_assistant, entry, unload_ok)
    /\ result' = Return(unload_ok)
    /\ UNCHANGED <<pc, call, slots, heap, sensor>>

\* the config entries
Entries == {"e1", "e2"}

\* Home Assistant before any entry is set up
SetupInit ==
    /\ pc = "hass"
    /\ call = [service |-> "none", data |-> [entry_id |-> ""]]
    /\ slots = <<>>
    /\ result = None
    /\ sensor = "none"
    /\ heap = <<[refresh_interval |-> 10], [refresh_interval |-> 10]>>
    /\ home_assistant =
          [data |-> <<>>,
           services |-> <<>>,
           entries |-> [e \in Entries |->
                           [options |-> IF e = "e1" THEN 2 ELSE 1,
                            state |-> "not_loaded",
                            platforms |-> FALSE]],
           handled |-> 0]

SetupNext ==
    \E entry \in Entries :
       \/ SetupEntry(entry)
       \/ \E connected \in BOOLEAN : TestConnection(entry, connected)
       \/ \E refreshed \in BOOLEAN : FirstRefresh(entry, refreshed)
       \/ ForwardEntrySetups(entry)
       \/ UnloadEntry(entry)
       \/ \E unload_ok \in BOOLEAN : UnloadPlatforms(entry, unload_ok)

SetupSpec == SetupInit /\ [][SetupNext]_vars

\* the entry's coroutine went from waiting at `from` to `to` in the step
Went(entry, from, to) ==
    /\ home_assistant.entries[entry].state = from
    /\ home_assistant'.entries[entry].state = to

\* each service that is registered was registered once, all seven are
\* registered or none, and they are once a coordinator is stored
RegisteredOnce ==
    /\ DOMAIN home_assistant.services \in {{}, SERVICES}
    /\ \A service \in DOMAIN home_assistant.services :
          home_assistant.services[service] = 1
    /\ DOMAIN home_assistant.data # {} =>
          DOMAIN home_assistant.services = SERVICES

\* only a setup that finds no service registered registers any, and the
\* first setup that stores its coordinator does
RegisteredByTheFirstSetup ==
    /\ home_assistant'.services # home_assistant.services =>
          /\ DOMAIN home_assistant.services = {}
          /\ home_assistant'.services = [service \in SERVICES |-> 1]
          /\ \E entry \in Entries :
                Went(entry, "first_refresh", "forward_entry_setups")
    /\ \A entry \in Entries :
          Went(entry, "first_refresh", "forward_entry_setups") =>
             DOMAIN home_assistant'.services = SERVICES

\* C28: service registration is idempotent: however the config entries are
\* set up and unloaded, each of the seven services is registered exactly
\* once, on the first setup, and later setups register nothing.
C28_ServicesRegisteredOnce ==
    /\ []RegisteredOnce
    /\ [][RegisteredByTheFirstSetup]_vars

\* both entries are set up, the second after the services were registered
C28_Witness ==
    /\ \A entry \in Entries : home_assistant.entries[entry].state = "loaded"
    /\ DOMAIN home_assistant.data = Entries
    /\ home_assistant.services = [service \in SERVICES |-> 1]

\* a coordinator is stored only for an entry whose first refresh has
\* completed, and platforms are set up only for an entry with a coordinator
StoredAfterRefresh ==
    \A entry \in Entries :
       /\ entry \in DOMAIN home_assistant.data =>
             home_assistant.entries[entry].state
                \in {"forward_entry_setups", "loaded", "unload_platforms",
                     "failed_unload"}
       /\ home_assistant.entries[entry].platforms =>
             entry \in DOMAIN home_assistant.data

\* what the steps of the setup and of the unloading of an entry leave
SetupAndUnloadSteps ==
    \A entry \in Entries :
       /\ Went(entry, "test_connection", "setup_error") =>
             /\ result' = Return(FALSE)
             /\ entry \notin DOMAIN home_assistant'.data
             /\ home_assistant'.data = home_assistant.data
             /\ home_assistant'.services = home_assistant.services
             /\ \A e \in Entries : home_assistant'.entries[e].platforms
                                     = home_assistant.entries[e].platforms
       /\ Went(entry, "first_refresh", "forward_entry_setups") =>
             /\ entry \notin DOMAIN home_assistant.data
             /\ entry \in DOMAIN home_assistant'.data
             /\ home_assistant'.data[entry].config_entry = entry
             /\ ~home_assistant'.entries[entry].platforms
       /\ Went(entry, "forward_entry_setups", "loaded") =>
             /\ result' = Return(TRUE)
             /\ entry \in DOMAIN home_assistant.data
             /\ ~home_assistant.entries[entry].platforms
             /\ home_assistant'.entries[entry].platforms
       /\ (/\ home_assistant.entries[entry].state = "unload_platforms"
           /\ home_assistant'.entries[entry].state # "unload_platforms") =>
             LET unload_ok == ~home_assistant'.entries[entry].platforms
             IN  /\ result' = Return(unload_ok)
                 /\ entry \in DOMAIN home_assistant.data
                 /\ entry \notin DOMAIN home_assistant'.data <=> unload_ok
                 /\ \A e \in DOMAIN home_assistant.data \ {entry} :
                       e \in DOMAIN home_assistant'.data

\* C29: async_setup_entry returns False and leaves no trace when the
\* connection test fails; when it succeeds the coordinator is stored under
\* the entry id only after the first refresh has completed and before the
\* platforms are set up; async_unload_entry removes that coordinator exactly
\* when the platform unload succeeded, and returns the unload result.
C29_SetupAndUnloadOrder ==
    /\ []StoredAfterRefresh
    /\ [][SetupAndUnloadSteps]_vars

\* the connection test of e1 has just failed, after e2 was set up and then
\* unloaded with success: no coordinator is stored
C29_Witness ==
    /\ home_assistant.entries["e1"].state = "setup_error"
    /\ home_assistant.entries["e2"].state = "not_loaded"
    /\ result = Return(FALSE)
    /\ DOMAIN home_assistant.services = SERVICES
    /\ DOMAIN home_assistant.data = {}

====
